---- MODULE Spec2Model ----
(***************************************************************************)
(* Request lifecycle of uWebKoa (src/src/uWebKoa.js, the module that       *)
(* starts at line 881): handleRequest, ctx.parseBody, ctx.send,            *)
(* ctx.sendFile, executeMiddleware and serveStatic.                        *)
(*                                                                         *)
(* One request is followed from arrival to cleanup.  An action is either   *)
(* a macrotask delivered by the event loop (a body chunk, the client       *)
(* abort, a timer, the completion of an fs call or of a stage's own I/O),  *)
(* enabled only when run.k = "idle", or one continuation of the promise    *)
(* chain that the macrotask started (run.k # "idle"): JavaScript runs the  *)
(* whole microtask chain before the next macrotask, so no macrotask        *)
(* interleaves with it.  Stage indices are 1-based here, 0-based in the    *)
(* source.                                                                 *)
(***************************************************************************)
EXTENDS Integers, Sequences, FiniteSets, TLC

\* ---------------------------------------------------------------- bounds
MaxStages == 2      \* user stages registered with app.use, after the default error handler
MaxChunks == 2      \* body chunks the transport delivers to one request
MaxRelLen == 5      \* characters of a requested path
MaxAborts == 2      \* deliveries of the abort signal, where it is delivered again
MaxJsonLen == 4     \* characters of a JSON request body
MaxFormLen == 4     \* characters of a form-encoded request body
MaxUrlLen == 4      \* characters of a routed URL after its leading '/'
MaxHandlers == 2    \* handlers of one route
MaxWorkers == 2     \* options.workers of listen(port, {cluster: true, workers})
MaxSets == 3        \* calls of ctx.setShared in one behaviour
MaxLimit == 2       \* largest limit given to createRateLimit
MaxTicks == 2       \* interval ticks in one behaviour
MaxRequests == 4    \* requests through the rate-limit stage in one behaviour
MaxExits == 3       \* worker processes that exit while the primary runs

\* ------------------------------------------------------------- constants
MAX_BODY_SIZE == 10 * 1024 * 1024
\* chunk lengths: an empty chunk, and two that reach the ceiling exactly
\* (half + half) or cross it by one byte (half + half plus one)
ChunkSizes == {0, MAX_BODY_SIZE \div 2, MAX_BODY_SIZE \div 2 + 1}

\* What a registered stage does.  "errh" is the stage useDefaultErrorHandler
\* installs; the others are application stages:
\*   onion  ctx.response.status = 201; ctx.json({...}); await next()
\*          (assigns the response draft; every stage records pre/post markers)
\*   slow   await io; await next(); await io      (suspends across macrotasks)
\*   send   ctx.send()                            (responds, never calls next)
\*   file   await ctx.sendFile(path)
\*   throw  throw new Error(...), or ctx.throw(status, message)
\*   redirect  ctx.redirect(url)
\*   twice  await next(); await next()
\*   both   await Promise.all([next(), next()])
UserKinds == {"onion", "slow", "send", "file", "throw"}
Script(kind) ==
    CASE kind = "errh"  -> <<"next">>
      [] kind = "onion" -> <<"set", "next">>
      [] kind = "slow"  -> <<"io", "next", "io">>
      [] kind = "send"  -> <<"send">>
      [] kind = "file"  -> <<"sendFile", "sendFile">>
      [] kind = "throw" -> <<"throw">>
      [] kind = "redirect" -> <<"redirect">>
      [] kind = "twice" -> <<"next", "next">>
      [] kind = "both"  -> <<"next2">>

VARIABLES
    method,       \* ctx.request.method
    middlewares,  \* this.middlewares: the kinds of the registered stages
    hr,           \* handleRequest: "new", "parse", "chain", "done"
    run,          \* the continuation now running, [k |-> "idle"] between macrotasks
    ctx,          \* aborted, ended, res, req, status, headers, body, reqBody
    reqTimer,     \* the request timer: "none", "armed", "fired", "cleared"
    abortSlot,    \* whose callback res.onAborted holds (the transport keeps one)
    aborts,       \* abort signals delivered so far
    resLog,       \* transport writes, one entry per cork batch
    ingest,       \* parseBody: promise, totalSize, nChunks, last, concat; late records
                  \* whether the request timer had fired when the last chunk came
    st,           \* per stage: "idle","run","io","next","file","done","failed"
    pcs,          \* per stage: index of the script step it is at
    en,           \* per executeNextMiddleware(i): "none","called","racing","ok","err","timeout"
    timers,       \* stage timers in creation order (all have the same delay)
    order,        \* markers <<i, "pre" | "post">> in the order recorded
    sf,           \* the sendFile call: state, owner, fd, opens, closes, err
    sreq,         \* the path scenario: mode, phase, url, arg, sendFileArg, statPath, called
    error,        \* the error a rejection in flight carries ("none" if there is none):
                  \* "absent" if it has no status property, "status404" if it has
    listening,    \* whether listen() has been called
    breq,         \* the request body: contentType, text, and request.body once decoded
    rt,           \* the route scenario
    cluster,      \* multi-process or multi-thread mode: the primary and its workers
    env,          \* process.env.NODE_ENV ("unset" when it is not defined)
    rl            \* the rate-limit scenario: the limiter's store and the clock

vars == <<method, middlewares, hr, run, ctx, reqTimer, abortSlot, aborts, resLog,
          ingest, st, pcs, en, timers, order, sf, sreq, error, listening, breq, rt, cluster,
          env, rl>>

\* what the actions of one request leave alone
other == <<listening, breq, rt, cluster, env, rl>>

\* no rate limiter is installed
NoLimit == [mode |-> "off"]

Idle == [k |-> "idle", i |-> 0]
N == Len(middlewares)
Stages == 1..N

\* ------------------------------------------------------------ transport
\* The write-end primitive is res.end: ctx.send, the 408 of the request timer,
\* the small-file commit and the end that follows the large-file loop call it.
EndOps == {"send", "timeout408", "fileSmall", "fileEnd"}
RECURSIVE EndCount(_)
EndCount(log) ==
    IF log = <<>> THEN 0
    ELSE (IF Head(log).op \in EndOps THEN 1 ELSE 0) + EndCount(Tail(log))

\* ctx.set(key, value): this.response.headers[key] = value
set(c, key, value) ==
    [c EXCEPT !.headers = {h \in @ : h[1] # key} \cup {<<key, value>>}]

\* What ctx.send() hands to res.end for a body draft: nothing for null,
\* JSON.stringify(body) for an object, String(body) otherwise.
serialize(body) ==
    CASE body = "null" -> "none"
      [] body = "object" -> "json"
      [] body = "objectStack" -> "jsonStack"
      [] OTHER -> "text"

\* ctx.send(): a no-op once _ended or _aborted, else one corked
\* writeStatus/writeHeader/end and _ended = true.
send(c) == IF c.ended \/ c.aborted THEN c ELSE [c EXCEPT !.ended = TRUE]

\* Variant of sendLog that writes the initial draft instead of the current one.
sendLog_initialDraft(c, log) ==
    IF c.ended \/ c.aborted THEN log
    ELSE Append(log, [op |-> "send", status |-> 200, headers |-> {}, body |-> "none"])

sendLog(c, log) ==
    IF c.ended \/ c.aborted THEN log
    ELSE Append(log, [op |-> "send", status |-> c.status, headers |-> c.headers,
                      body |-> serialize(c.body)])

\* Variant of errStatus that ignores err.status.
errStatus_always500(e) == 500

\* err.status || 500
errStatus(e) == IF e = "status404" THEN 404 ELSE 500

\* Variant of includesStack that adds the stack under every flag.
includesStack_always(flag) == TRUE

\* process.env.NODE_ENV !== 'production': whether handleError adds
\* errorResponse.error = err.stack
includesStack(flag) == flag # "production"

\* the errorResponse object of handleError: {success, message, code} with
\* or without the error's stack
errorResponse(flag) == IF includesStack(flag) THEN "objectStack" ELSE "object"

\* ErrorHandler.handleError(err, ctx); e is err.status
errorDraft(c, e) ==
    [set([c EXCEPT !.status = errStatus(e)], "Content-Type", "application/json")
        EXCEPT !.body = errorResponse(env)]
handleError(c, e) ==
    IF c.ended \/ c.aborted THEN c
    ELSE [send(errorDraft(c, e)) EXCEPT !.ended = TRUE]
handleErrorLog(c, e, log) ==
    IF c.ended \/ c.aborted THEN log
    ELSE sendLog(errorDraft(c, e), log)

\* Variant of cleanupContext that nulls the large fields only.
cleanupContext_bodyOnly(c) == [c EXCEPT !.reqBody = IF @ = "empty" THEN "null" ELSE @]

\* uWebKoa._cleanupContext(ctx): request.body = null if it is an object,
\* ctx.req = null, ctx.res = null
cleanupContext(c) ==
    [c EXCEPT !.req = "null", !.res = "null", !.reqBody = IF @ = "empty" THEN "null" ELSE @]

\* ------------------------------------------------------------- timers
RECURSIVE Desc(_)
Desc(S) ==
    IF S = {} THEN <<>>
    ELSE LET m == CHOOSE x \in S : \A y \in S : y <= x
         IN <<m>> \o Desc(S \ {m})

\* When the running stage suspends, returns or throws, the synchronous call
\* stack unwinds: every executeNextMiddleware frame still in its first
\* synchronous run creates its timer and awaits Promise.race, deepest first.
armed(e) == [j \in DOMAIN e |-> IF e[j] = "called" THEN "racing" ELSE e[j]]

\* Variant of armTimers that creates no stage timer.
armTimers_none(e, tq) == tq

armTimers(e, tq) == tq \o Desc({j \in DOMAIN e : e[j] = "called"})

\* The continuation that runs once stage i's own promise settles.
afterStage(e, i, outcome) ==
    IF e[i] \in {"called", "racing"} THEN [k |-> outcome, i |-> i] ELSE Idle

\* The caller that awaits executeNextMiddleware(i) resumes: stage i-1 after
\* its await next(), or executeMiddleware/handleRequest for the first stage.
resumeRun(i) == IF i = 1 THEN [k |-> "chained", i |-> 0] ELSE [k |-> "stage", i |-> i - 1]
resumeSt(s, i) == IF i = 1 THEN s ELSE [s EXCEPT ![i - 1] = "run"]
resumePcs(p, i) == IF i = 1 THEN p ELSE [p EXCEPT ![i - 1] = @ + 1]

\* ----------------------------------------------------------------- Init
RECURSIVE SeqsUpTo(_, _)
SeqsUpTo(S, n) ==
    IF n = 0 THEN {<<>>}
    ELSE LET shorter == SeqsUpTo(S, n - 1)
         IN shorter \cup {Append(q, x) : q \in shorter, x \in S}

\* new uWebKoa(options) registers the default error handler first unless
\* options.disableDefaultErrorHandler; app.use appends the user stages.
Programs ==
    LET user == SeqsUpTo(UserKinds, MaxStages) \ {<<>>}
    IN {<<"errh">> \o u : u \in user} \cup user

NoFile == [state |-> "none", owner |-> 0, fd |-> "null", opens |-> 0, closes |-> 0,
           err |-> "none", ret |-> "none", size |-> 0, contentLength |-> 0, sent |-> 0]
NoStatic == [mode |-> "off", phase |-> "off", url |-> <<>>, arg |-> <<>>,
             sendFileArg |-> <<>>, statPath |-> <<>>, called |-> FALSE]
NoBody == [mode |-> "off"]
NoRoute == [mode |-> "off"]
NoCluster == [mode |-> "off"]

Init ==
    /\ method \in {"GET", "HEAD", "POST"}
    /\ middlewares \in Programs
    /\ hr = "new"
    /\ run = Idle
    /\ ctx = [aborted |-> FALSE, ended |-> FALSE, res |-> "live", req |-> "live",
              status |-> 200,
              headers |-> {}, body |-> "null", reqBody |-> "unset"]
    /\ reqTimer = "none"
    /\ abortSlot = "none"
    /\ aborts = 0
    /\ resLog = <<>>
    /\ ingest = [promise |-> "none", totalSize |-> 0, nChunks |-> 0, last |-> FALSE,
                 concat |-> FALSE, late |-> FALSE]
    /\ st = [i \in 1..Len(middlewares) |-> "idle"]
    /\ pcs = [i \in 1..Len(middlewares) |-> 1]
    /\ en = [i \in 1..Len(middlewares) |-> "none"]
    /\ timers = <<>>
    /\ order = <<>>
    /\ sf = NoFile
    /\ sreq = NoStatic
    /\ error = "none"
    /\ env = "production"
    /\ rl = NoLimit
    /\ listening = TRUE
    /\ breq = NoBody
    /\ rt = NoRoute
    /\ cluster = NoCluster

\* -------------------------------------------------------- handleRequest
\* try/finally of handleRequest: clearTimeout(timeoutId), _cleanupContext(ctx)
Finally(c) ==
    /\ reqTimer' = IF reqTimer = "armed" THEN "cleared" ELSE reqTimer
    /\ ctx' = cleanupContext(c)
    /\ run' = Idle

\* Variant of bodyless that leaves HEAD out.
bodyless_getOnly(m) == m = "GET"

\* parseBody: this.request.method === 'GET' || this.request.method === 'HEAD'
bodyless(m) == m \in {"GET", "HEAD"}

\* Variant of subscribed in which parseBody registers no abort callback and
\* the one handleRequest registered is dropped.
subscribed_noAbort(previous) == "none"

\* res.onAborted(cb) inside the executor of parseBody's promise: the
\* transport keeps the last callback registered
subscribed(previous) == "parseBody"

\* The transport delivers the request: createContext, setTimeout, res.onAborted,
\* then ctx.parseBody() up to its first suspension.
HandleRequest ==
    /\ hr = "new"
    /\ listening
    /\ sreq.phase = "off"
    /\ reqTimer' = "armed"
    /\ hr' = "parse"
    /\ IF bodyless(method) \/ ctx.aborted
       THEN /\ ctx' = [ctx EXCEPT !.reqBody = "empty"]
            /\ abortSlot' = "handleRequest"
            /\ run' = [k |-> "parsed", i |-> 0]
            /\ UNCHANGED ingest
       ELSE /\ abortSlot' = subscribed("handleRequest")
            /\ ingest' = [ingest EXCEPT !.promise = "pending"]
            /\ UNCHANGED <<ctx, run>>
    /\ UNCHANGED <<other, error, method, middlewares, aborts, resLog, st, pcs, en, timers, order, sf, sreq>>

\* handleRequest after await ctx.parseBody(): executeMiddleware starts the
\* first stage unless the Context is ended or aborted.
AfterParseBody ==
    /\ run.k = "parsed"
    /\ IF ~ctx.ended /\ ~ctx.aborted
       THEN IF N = 0
            THEN /\ run' = [k |-> "chained", i |-> 0]
                 /\ hr' = "chain"
                 /\ UNCHANGED <<ctx, reqTimer, st, en, order>>
            ELSE /\ en' = [en EXCEPT ![1] = "called"]
                 /\ st' = [st EXCEPT ![1] = "run"]
                 /\ order' = Append(order, <<1, "pre">>)
                 /\ run' = [k |-> "stage", i |-> 1]
                 /\ hr' = "chain"
                 /\ UNCHANGED <<ctx, reqTimer>>
       ELSE /\ Finally(ctx)
            /\ hr' = "done"
            /\ UNCHANGED <<st, en, order>>
    /\ UNCHANGED <<other, error, method, middlewares, abortSlot, aborts, resLog, ingest, pcs, timers, sf, sreq>>

\* handleRequest after await this.executeMiddleware(ctx): the default commit.
AfterChain ==
    /\ run.k = "chained"
    /\ resLog' = sendLog(ctx, resLog)
    /\ Finally(send(ctx))
    /\ hr' = "done"
    /\ UNCHANGED <<other, error, method, middlewares, abortSlot, aborts, ingest, st, pcs, en, timers,
                   order, sf, sreq>>

\* handleRequest's catch: ErrorHandler.handleError(err, ctx).  ctx.send()
\* on a Context whose res is null would throw out of the catch, and
\* handleRequest would reject after its finally.
CatchChain ==
    /\ run.k = "caught"
    /\ resLog' = IF ctx.res = "null" THEN resLog ELSE handleErrorLog(ctx, error, resLog)
    /\ Finally(IF ctx.res = "null" THEN ctx ELSE handleError(ctx, error))
    /\ hr' = IF ctx.res = "null" /\ ~ctx.ended /\ ~ctx.aborted THEN "rejected" ELSE "done"
    /\ error' = "none"
    /\ UNCHANGED <<other, method, middlewares, abortSlot, aborts, ingest, st, pcs, en, timers,
                   order, sf, sreq>>

\* ---------------------------------------------------- executeMiddleware
Running(i) == run = [k |-> "stage", i |-> i]
Op(i) == IF pcs[i] <= Len(Script(middlewares[i])) THEN Script(middlewares[i])[pcs[i]]
         ELSE "return"

\* Variant of nextIndex that passes index instead of index + 1.
nextIndex_same(i) == i

\* const next = async () => { await executeNextMiddleware(index + 1); }
nextIndex(i) == i + 1

\* Variant of executed in which the flag is never seen set.
executed_never(e, j) == FALSE

\* middlewareInfo.executed of stage j: set when executeNextMiddleware(j)
\* first gets past its guards
executed(e, j) == e[j] # "none"

\* Stage i calls await next(): executeNextMiddleware(i + 1).  Past the last
\* stage, or for a stage already executed, it returns at once and stage i
\* goes on after the await; otherwise stage i + 1 is invoked.
StageNext(i) ==
    /\ Running(i) /\ Op(i) = "next"
    /\ LET j == nextIndex(i)
       IN IF j > N \/ executed(en, j)
          THEN /\ pcs' = [pcs EXCEPT ![i] = @ + 1]
               /\ en' = armed(en)
               /\ timers' = armTimers(en, timers)
               /\ UNCHANGED <<st, order, run>>
          ELSE /\ en' = [en EXCEPT ![j] = "called"]
               /\ st' = [st EXCEPT ![i] = "next", ![j] = "run"]
               /\ order' = Append(order, <<j, "pre">>)
               /\ run' = [k |-> "stage", i |-> j]
               /\ UNCHANGED <<pcs, timers>>
    /\ UNCHANGED <<other, error, method, middlewares, hr, ctx, reqTimer, abortSlot, aborts, resLog,
                   ingest, sf, sreq>>

\* Stage i calls next() twice before it awaits either promise.  The first
\* call runs executeNextMiddleware(i + 1) up to its first suspension, the
\* second call then meets the guards again; stage i goes on once both
\* promises have settled.
StageNextBoth(i) ==
    /\ Running(i) /\ Op(i) = "next2"
    /\ LET j == nextIndex(i)
           first == [en EXCEPT ![j] = "called"]
       IN IF j > N \/ executed(en, j)
          THEN /\ pcs' = [pcs EXCEPT ![i] = @ + 1]
               /\ en' = armed(en)
               /\ timers' = armTimers(en, timers)
               /\ UNCHANGED <<st, order, run>>
          ELSE /\ en' = first
               /\ st' = [st EXCEPT ![i] = "next", ![j] = "run"]
               /\ order' = IF executed(first, j) THEN Append(order, <<j, "pre">>)
                           ELSE Append(Append(order, <<j, "pre">>), <<j, "pre">>)
               /\ run' = [k |-> "stage", i |-> j]
               /\ UNCHANGED <<pcs, timers>>
    /\ UNCHANGED <<other, error, method, middlewares, hr, ctx, reqTimer, abortSlot, aborts, resLog,
                   ingest, sf, sreq>>

\* Variant of StageIo in which executeNextMiddleware does not await
\* Promise.race: it resolves as soon as the stage suspends.
StageIo_noAwait(i) ==
    /\ run = [k |-> "stage", i |-> i]
    /\ (IF pcs[i] <= Len(Script(middlewares[i])) THEN Script(middlewares[i])[pcs[i]]
        ELSE "return") = "io"
    /\ st' = [st EXCEPT ![i] = "io"]
    /\ en' = armed(en)
    /\ timers' = armTimers(en, timers)
    /\ run' = afterStage(en, i, "resolved")
    /\ UNCHANGED <<other, error, method, middlewares, hr, ctx, reqTimer, abortSlot, aborts, resLog,
                   ingest, pcs, order, sf, sreq>>

\* Stage i awaits I/O of its own: the call stack unwinds and the event loop
\* takes over.
StageIo(i) ==
    /\ Running(i) /\ Op(i) = "io"
    /\ st' = [st EXCEPT ![i] = "io"]
    /\ en' = armed(en)
    /\ timers' = armTimers(en, timers)
    /\ run' = Idle
    /\ UNCHANGED <<other, error, method, middlewares, hr, ctx, reqTimer, abortSlot, aborts, resLog,
                   ingest, pcs, order, sf, sreq>>

\* The I/O that stage i awaits completes.
IoDone(i) ==
    /\ run = Idle /\ st[i] = "io"
    /\ st' = [st EXCEPT ![i] = "run"]
    /\ pcs' = [pcs EXCEPT ![i] = @ + 1]
    /\ run' = [k |-> "stage", i |-> i]
    /\ UNCHANGED <<other, error, method, middlewares, hr, ctx, reqTimer, abortSlot, aborts, resLog,
                   ingest, en, timers, order, sf, sreq>>

\* Stage i calls ctx.send().
StageSend(i) ==
    /\ Running(i) /\ Op(i) = "send"
    /\ ctx' = send(ctx)
    /\ resLog' = sendLog(ctx, resLog)
    /\ pcs' = [pcs EXCEPT ![i] = @ + 1]
    /\ UNCHANGED <<other, error, method, middlewares, hr, run, reqTimer, abortSlot, aborts, ingest,
                   st, en, timers, order, sf, sreq>>

\* ctx.json(data): Content-Type application/json and the body draft
json(c) == [set(c, "Content-Type", "application/json") EXCEPT !.body = "object"]

\* Stage i assigns the response draft: status 201 and ctx.json({...}).
StageSet(i) ==
    /\ Running(i) /\ Op(i) = "set"
    /\ ctx' = json([ctx EXCEPT !.status = 201])
    /\ pcs' = [pcs EXCEPT ![i] = @ + 1]
    /\ UNCHANGED <<other, error, method, middlewares, hr, run, reqTimer, abortSlot, aborts, resLog,
                   ingest, st, en, timers, order, sf, sreq>>

\* the statuses a thrown error carries: none (new Error) or the one given
\* to ctx.throw
ErrStatuses == {"absent", "status404"}

\* Stage i throws an error whose status is s: its promise rejects.  Once
\* the race of executeNextMiddleware(i) has settled nobody takes the error.
StageThrow(i, s) ==
    /\ Running(i) /\ Op(i) = "throw"
    /\ st' = [st EXCEPT ![i] = "failed"]
    /\ en' = armed(en)
    /\ timers' = armTimers(en, timers)
    /\ run' = afterStage(en, i, "rejected")
    /\ error' = IF en[i] \in {"called", "racing"} THEN s ELSE "none"
    /\ UNCHANGED <<other, method, middlewares, hr, ctx, reqTimer, abortSlot, aborts, resLog,
                   ingest, pcs, order, sf, sreq>>

\* Stage i returns: its promise resolves.
StageReturn(i) ==
    /\ Running(i) /\ Op(i) = "return"
    /\ st' = [st EXCEPT ![i] = "done"]
    /\ order' = Append(order, <<i, "post">>)
    /\ en' = armed(en)
    /\ timers' = armTimers(en, timers)
    /\ run' = afterStage(en, i, "resolved")
    /\ UNCHANGED <<other, error, method, middlewares, hr, ctx, reqTimer, abortSlot, aborts, resLog,
                   ingest, pcs, sf, sreq>>

\* executeNextMiddleware(i) after Promise.race resolved with the stage's
\* promise: completed = true, and the caller resumes.
ExecuteNextResolved(i) ==
    /\ run = [k |-> "resolved", i |-> i]
    /\ en' = [en EXCEPT ![i] = "ok"]
    /\ st' = resumeSt(st, i)
    /\ pcs' = resumePcs(pcs, i)
    /\ run' = resumeRun(i)
    /\ UNCHANGED <<other, error, method, middlewares, hr, ctx, reqTimer, abortSlot, aborts, resLog,
                   ingest, timers, order, sf, sreq>>

\* executeNextMiddleware(i) catches a stage error that is not the timeout and
\* rethrows it.  The caller's await next() throws: the default error handler
\* catches it (ErrorHandler.handleError) and goes on, any other stage fails
\* in turn, and for the first stage handleRequest's catch takes it.
ExecuteNextRejected(i) ==
    /\ run = [k |-> "rejected", i |-> i]
    /\ en' = [en EXCEPT ![i] = "err"]
    /\ IF i = 1
       THEN /\ run' = [k |-> "caught", i |-> 0]
            /\ UNCHANGED <<st, pcs, ctx, resLog, error>>
       ELSE IF middlewares[i - 1] = "errh"
            THEN /\ ctx' = handleError(ctx, error)
                 /\ resLog' = handleErrorLog(ctx, error, resLog)
                 /\ st' = [st EXCEPT ![i - 1] = "run"]
                 /\ pcs' = [pcs EXCEPT ![i - 1] = @ + 1]
                 /\ run' = [k |-> "stage", i |-> i - 1]
                 /\ error' = "none"
            ELSE /\ st' = [st EXCEPT ![i - 1] = "failed"]
                 /\ run' = afterStage(en, i - 1, "rejected")
                 /\ error' = IF en[i - 1] \in {"called", "racing"} THEN error ELSE "none"
                 /\ UNCHANGED <<pcs, ctx, resLog>>
    /\ UNCHANGED <<other, method, middlewares, hr, reqTimer, abortSlot, aborts, ingest, timers,
                   order, sf, sreq>>

\* Variant of timeoutDraft that leaves the draft as it is.
timeoutDraft_keep(c) == c

\* the catch of executeNextMiddleware for the timeout error:
\* ctx.status = 503; ctx.body = { error: ... }
timeoutDraft(c) == [c EXCEPT !.status = 503, !.body = "object"]

\* The oldest stage timer fires.  If the race of its executeNextMiddleware
\* is still open it rejects with the timeout error: 503 through ctx.send(),
\* _ended = true, and executeNextMiddleware(i) resolves.  A timer whose race
\* has settled rejects a settled promise, which does nothing.
StageTimeout ==
    /\ run = Idle /\ timers # <<>>
    /\ LET i == Head(timers)
           c == timeoutDraft(ctx)
       IN /\ timers' = Tail(timers)
          /\ IF en[i] = "racing"
             THEN /\ ctx' = [send(c) EXCEPT !.ended = TRUE]
                  /\ resLog' = sendLog(c, resLog)
                  /\ en' = [en EXCEPT ![i] = "timeout"]
                  /\ st' = resumeSt(st, i)
                  /\ pcs' = resumePcs(pcs, i)
                  /\ run' = resumeRun(i)
             ELSE UNCHANGED <<ctx, resLog, en, st, pcs, run>>
    /\ UNCHANGED <<other, error, method, middlewares, hr, reqTimer, abortSlot, aborts, ingest, order,
                   sf, sreq>>

\* The request timer fires: 408 written straight to res, _aborted = true.
RequestTimeout ==
    /\ run = Idle /\ reqTimer = "armed"
    /\ reqTimer' = "fired"
    /\ IF ~ctx.ended /\ ~ctx.aborted
       THEN /\ ctx' = [ctx EXCEPT !.aborted = TRUE]
            /\ resLog' = Append(resLog, [op |-> "timeout408", status |-> 408,
                                         headers |-> {<<"Content-Type", "application/json">>},
                                         body |-> "json"])
       ELSE UNCHANGED <<ctx, resLog>>
    /\ UNCHANGED <<other, error, method, middlewares, hr, run, abortSlot, aborts, ingest, st, pcs, en,
                   timers, order, sf, sreq>>

\* ---------------------------------------------------- parseBody: decode
\* Values of request.body.  One record shape for all of them: t is the type,
\* n the number, a the array elements, s the string, m the object's
\* key/value pairs.
Unset == [t |-> "unset", n |-> 0, a |-> <<>>, s |-> <<>>, m |-> {}]
Num(n) == [Unset EXCEPT !.t = "num", !.n = n]
Arr(a) == [Unset EXCEPT !.t = "arr", !.a = a]
Str(chars) == [Unset EXCEPT !.t = "str", !.s = chars]
Obj(m) == [Unset EXCEPT !.t = "obj", !.m = m]

\* contentType.includes(media), the header value being a media type
\* followed by its parameters; undefined and '' are the empty sequence
includes(contentType, media) == \E k \in DOMAIN contentType : contentType[k] = media

\* String.prototype.split(sep): every piece, the empty ones included
RECURSIVE splitAcc(_, _, _, _)
splitAcc(str, sep, cur, acc) ==
    IF str = <<>> THEN Append(acc, cur)
    ELSE IF Head(str) = sep
         THEN splitAcc(Tail(str), sep, <<>>, Append(acc, cur))
         ELSE splitAcc(Tail(str), sep, Append(cur, Head(str)), acc)
split(str, sep) == splitAcc(str, sep, <<>>, <<>>)

\* JSON.parse over the texts made of '1', '[', ']' and ',': numbers written
\* with the digit 1, and arrays.  A result is [ok, val, rest].
ParseFail == [ok |-> FALSE, val |-> Unset, rest |-> <<>>]
RECURSIVE ones(_)
ones(str) == IF str # <<>> /\ Head(str) = "1" THEN 1 + ones(Tail(str)) ELSE 0
RECURSIVE numVal(_)
numVal(k) == IF k = 0 THEN 0 ELSE 10 * numVal(k - 1) + 1
RECURSIVE parseValue(_)
RECURSIVE parseElems(_, _)
parseValue(str) ==
    IF str = <<>> THEN ParseFail
    ELSE IF Head(str) = "1"
         THEN LET k == ones(str)
              IN [ok |-> TRUE, val |-> Num(numVal(k)), rest |-> SubSeq(str, k + 1, Len(str))]
         ELSE IF Head(str) = "["
              THEN IF Len(str) >= 2 /\ str[2] = "]"
                   THEN [ok |-> TRUE, val |-> Arr(<<>>), rest |-> SubSeq(str, 3, Len(str))]
                   ELSE parseElems(Tail(str), <<>>)
              ELSE ParseFail
parseElems(str, acc) ==
    LET r == parseValue(str)
    IN IF ~r.ok \/ r.rest = <<>> THEN ParseFail
       ELSE IF Head(r.rest) = ","
            THEN parseElems(Tail(r.rest), Append(acc, r.val))
            ELSE IF Head(r.rest) = "]"
                 THEN [ok |-> TRUE, val |-> Arr(Append(acc, r.val)), rest |-> Tail(r.rest)]
                 ELSE ParseFail

\* Variant of JSONparse that stops at the end of the first value and
\* ignores what follows it.
JSONparse_prefix(str) == parseValue(str)

\* JSON.parse(text): the whole text must be one value, else SyntaxError
JSONparse(str) ==
    LET r == parseValue(str)
    IN IF r.ok /\ r.rest = <<>> THEN r ELSE ParseFail

\* decodeURIComponent over the texts made of 'k', '=', '&', '%' and '4':
\* '%44' is 'D'; a '%' not followed by two hex digits is a URIError
HexDigits == {"4"}
RECURSIVE decodeURIComponentAcc(_, _)
decodeURIComponentAcc(str, out) ==
    IF str = <<>> THEN [ok |-> TRUE, out |-> out]
    ELSE IF Head(str) = "%"
         THEN IF Len(str) >= 3 /\ str[2] \in HexDigits /\ str[3] \in HexDigits
              THEN decodeURIComponentAcc(SubSeq(str, 4, Len(str)), Append(out, "D"))
              ELSE [ok |-> FALSE, out |-> <<>>]
         ELSE decodeURIComponentAcc(Tail(str), Append(out, Head(str)))
decodeURIComponent(str) == decodeURIComponentAcc(str, <<>>)

\* const [key, value] = pair.split('='); ... value || ''
pairValue(parts) == IF Len(parts) >= 2 THEN parts[2] ELSE <<>>

\* pairs.forEach(pair => ...): body[decodeURIComponent(key)] =
\* decodeURIComponent(value || '') for every pair whose key is not empty;
\* a later pair overwrites an earlier one with the same decoded key.  A
\* URIError ends the loop.  A result is [ok, m].
RECURSIVE formPairs(_, _)
formPairs(pairs, m) ==
    IF pairs = <<>> THEN [ok |-> TRUE, m |-> m]
    ELSE LET parts == split(Head(pairs), "=")
             key == decodeURIComponent(parts[1])
             value == decodeURIComponent(pairValue(parts))
         IN IF parts[1] = <<>> THEN formPairs(Tail(pairs), m)
            ELSE IF ~key.ok \/ ~value.ok THEN [ok |-> FALSE, m |-> {}]
                 ELSE formPairs(Tail(pairs),
                                {p \in m : p[1] # key.out} \cup {<<key.out, value.out>>})

\* The decode of the last chunk (lines 1152-1180): by content type; what
\* JSON.parse or decodeURIComponent throws is caught and request.body is
\* the text itself.
decodeBody(contentType, text) ==
    IF includes(contentType, "application/json")
    THEN LET r == JSONparse(text)
         IN IF r.ok THEN r.val ELSE Str(text)
    ELSE IF includes(contentType, "application/x-www-form-urlencoded")
         THEN LET r == formPairs(split(text, "&"), {})
              IN IF r.ok THEN Obj(r.m) ELSE Str(text)
         ELSE Str(text)

\* ------------------------------------------------------------ parseBody
\* Variant of overLimit with the comparison off by one (>= for >).
overLimit_ge(total) == total >= MAX_BODY_SIZE

\* the size check of the onData callback
overLimit(total) == total > MAX_BODY_SIZE

\* res.onData callback of ctx.parseBody: one body chunk of length len.
Chunk(len, isLast) ==
    /\ run = Idle
    /\ ingest.promise # "none" /\ ~ingest.last
    /\ aborts = 0
    /\ ingest.nChunks < MaxChunks
    /\ LET total == ingest.totalSize + len
           pending == ingest.promise = "pending"
       IN IF overLimit(total)
          THEN \* _aborted = true; reject(...): parseBody's own catch takes the
               \* error, sets request.body = {} and parseBody resolves
               /\ ingest' = [ingest EXCEPT !.totalSize = total, !.nChunks = @ + 1,
                                !.last = isLast,
                                !.promise = IF pending THEN "rejected" ELSE @]
               /\ ctx' = [ctx EXCEPT !.aborted = TRUE,
                                     !.reqBody = IF pending THEN "empty" ELSE @]
               /\ run' = IF pending THEN [k |-> "parsed", i |-> 0] ELSE Idle
          ELSE IF isLast
               THEN \* Buffer.concat(chunks), decode by content type, resolve()
                    /\ ingest' = [ingest EXCEPT !.totalSize = total, !.nChunks = @ + 1,
                                     !.last = TRUE, !.concat = TRUE,
                                     !.late = (reqTimer = "fired"),
                                     !.promise = IF pending THEN "resolved" ELSE @]
                    /\ ctx' = [ctx EXCEPT !.reqBody = "decoded"]
                    /\ run' = IF pending THEN [k |-> "parsed", i |-> 0] ELSE Idle
               ELSE /\ ingest' = [ingest EXCEPT !.totalSize = total, !.nChunks = @ + 1]
                    /\ UNCHANGED <<ctx, run>>
    /\ breq' = IF breq.mode = "on" /\ ~overLimit(ingest.totalSize + len) /\ isLast
               THEN [breq EXCEPT !.decoded = decodeBody(breq.contentType, breq.text)]
               ELSE breq
    /\ UNCHANGED <<env, rl, listening, rt, cluster, error, method, middlewares, hr, reqTimer, abortSlot,
                   aborts, resLog, st, pcs, en, timers, order, sf, sreq>>

\* -------------------------------------------------------------- abort
\* Variant of onAbortedResolve in which parseBody's abort callback does not
\* call resolve().
onAbortedResolve_missing(promise) == promise

\* resolve() in parseBody's abort callback: settles the promise if pending
onAbortedResolve(promise) == IF promise = "pending" THEN "resolved" ELSE promise

\* Variant of onAborted in which only handleRequest's callback marks the
\* Context.
onAborted_handleRequestOnly(c, holder) ==
    IF holder = "handleRequest" THEN [c EXCEPT !.aborted = TRUE] ELSE c

\* ctx._aborted = true, the first effect of each of the three callbacks
\* given to res.onAborted (holder is the one registered last)
onAborted(c, holder) == [c EXCEPT !.aborted = TRUE]

\* The callback res.onAborted holds runs: handleRequest's, parseBody's or
\* sendFile's.  With no callback registered the signal is lost.
Deliver ==
    CASE abortSlot = "handleRequest" ->
           /\ ctx' = onAborted(ctx, abortSlot)
           /\ reqTimer' = IF reqTimer = "armed" THEN "cleared" ELSE reqTimer
           /\ UNCHANGED <<ingest, run, sf>>
      [] abortSlot = "parseBody" ->
           /\ ctx' = [onAborted(ctx, abortSlot) EXCEPT !.reqBody = "empty"]
           /\ ingest' = [ingest EXCEPT !.promise = onAbortedResolve(@)]
           /\ run' = IF ingest'.promise # ingest.promise THEN [k |-> "parsed", i |-> 0]
                     ELSE Idle
           /\ UNCHANGED <<reqTimer, sf>>
      [] abortSlot = "sendFile" ->
           /\ ctx' = onAborted(ctx, abortSlot)
           /\ sf' = IF sf.fd = "open"
                    THEN [sf EXCEPT !.fd = "null", !.closes = @ + 1]
                    ELSE sf
           /\ UNCHANGED <<reqTimer, ingest, run>>
      [] OTHER -> UNCHANGED <<ctx, reqTimer, ingest, run, sf>>

\* The transport delivers the abort signal.  It signals an abort once, and
\* only while the response has not been ended.
Abort ==
    /\ run = Idle
    /\ hr # "new"
    /\ aborts = 0
    /\ EndCount(resLog) = 0
    /\ aborts' = aborts + 1
    /\ Deliver
    /\ UNCHANGED <<other, error, method, middlewares, hr, abortSlot, resLog, st, pcs, en, timers,
                   order, sreq>>

\* ------------------------------------------------------------- sendFile
\* ctx.sendFile returns to the stage that awaits it.
sfReturn(s, v) == [s EXCEPT !.state = "done", !.ret = v]
OwnerResumes ==
    /\ st' = [st EXCEPT ![sf.owner] = "run"]
    /\ pcs' = [pcs EXCEPT ![sf.owner] = @ + 1]
    /\ run' = [k |-> "stage", i |-> sf.owner]

\* The catch of ctx.sendFile once the descriptor is dealt with: nothing if
\* the Context is aborted or ended, else 404 for ENOENT and 500 otherwise.
sfDraft(c, code) ==
    [set([c EXCEPT !.status = IF code = "ENOENT" THEN 404 ELSE 500],
         "Content-Type", "text/html") EXCEPT !.body = "string"]
sfCatch(c, code) ==
    IF c.aborted \/ c.ended THEN c
    ELSE [send(sfDraft(c, code)) EXCEPT !.ended = TRUE]
sfCatchLog(c, code, log) ==
    IF c.aborted \/ c.ended THEN log
    ELSE sendLog(sfDraft(c, code), log)

\* The entry test of ctx.sendFile looking at _ended only.
sendFileRefused_endedOnly(c) == c.ended

\* The entry test of ctx.sendFile: if (this._ended || this._aborted) return false
sendFileRefused(c) == c.ended \/ c.aborted

\* Stage i calls await ctx.sendFile(path): false at once if the Context is
\* ended or aborted, else the path is resolved and fs.promises.stat awaited.
StageSendFile(i) ==
    /\ Running(i) /\ Op(i) = "sendFile"
    /\ en' = armed(en)
    /\ timers' = armTimers(en, timers)
    /\ IF sendFileRefused(ctx)
       THEN /\ pcs' = [pcs EXCEPT ![i] = @ + 1]
            /\ sf' = [sf EXCEPT !.ret = "false"]
            /\ UNCHANGED <<st, run>>
       ELSE /\ sf' = [NoFile EXCEPT !.state = "stat", !.owner = i]
            /\ st' = [st EXCEPT ![i] = "file"]
            /\ run' = Idle
            /\ UNCHANGED pcs
    /\ UNCHANGED <<other, error, method, middlewares, hr, ctx, reqTimer, abortSlot, aborts, resLog,
                   ingest, order, sreq>>

StatResults == {"small", "large", "notfile", "ENOENT", "EIO"}

\* const MAX_SMALL_FILE_SIZE = 1024 * 1024; const BUFFER_SIZE = 64 * 1024
MAX_SMALL_FILE_SIZE == 1024 * 1024
BUFFER_SIZE == 64 * 1024

\* stat.size of the two kinds of regular file
statSize(r) == IF r = "small" THEN MAX_SMALL_FILE_SIZE ELSE MAX_SMALL_FILE_SIZE + 1

\* totalSent of the loop `while (position < stat.size && !this._aborted)`
\* when every fs.readSync succeeds: a read returns what the file holds from
\* position on, at most BUFFER_SIZE bytes
RECURSIVE streamed(_, _)
streamed(position, size) ==
    IF position < size
    THEN LET rest == size - position
             bytesRead == IF rest < BUFFER_SIZE THEN rest ELSE BUFFER_SIZE
         IN bytesRead + streamed(position + bytesRead, size)
    ELSE 0

\* Content-Type and Content-Length, written straight to res
FileHeaders == {<<"Content-Type", "getContentType">>, <<"Content-Length", "stat.size">>}

\* fs.promises.stat settles.
StatDone(r) ==
    /\ run = Idle /\ sf.state = "stat"
    /\ CASE r = "small" ->
              /\ sf' = [sf EXCEPT !.state = "read", !.size = statSize(r)]
              /\ UNCHANGED <<ctx, resLog, st, pcs, run>>
         [] r = "large" ->
              /\ sf' = [sf EXCEPT !.state = "open", !.size = statSize(r)]
              /\ UNCHANGED <<ctx, resLog, st, pcs, run>>
         [] r = "notfile" ->
              LET c == [ctx EXCEPT !.status = 404, !.body = "string"]
              IN /\ ctx' = [send(c) EXCEPT !.ended = TRUE]
                 /\ resLog' = sendLog(c, resLog)
                 /\ sf' = sfReturn([sf EXCEPT !.err = r], "false")
                 /\ OwnerResumes
         [] OTHER ->
              /\ ctx' = sfCatch(ctx, r)
              /\ resLog' = sfCatchLog(ctx, r, resLog)
              /\ sf' = sfReturn([sf EXCEPT !.err = r], "false")
              /\ OwnerResumes
    /\ UNCHANGED <<other, error, method, middlewares, hr, reqTimer, abortSlot, aborts, ingest, en,
                   timers, order, sreq>>

\* fs.promises.readFile settles (small-file path).  On success the file is
\* committed in one cork: writeStatus, writeHeader, end(fileContent); with
\* ctx.res already null the cork is a TypeError that the catch takes.
ReadFileDone(r) ==
    /\ run = Idle /\ sf.state = "read"
    /\ IF r = "ok" /\ ctx.res = "live"
       THEN /\ resLog' = Append(resLog, [op |-> "fileSmall", status |-> 200,
                                         headers |-> FileHeaders, body |-> "file"])
            /\ ctx' = [ctx EXCEPT !.ended = TRUE]
            /\ sf' = sfReturn([sf EXCEPT !.contentLength = sf.size, !.sent = sf.size],
                              "true")
       ELSE LET code == IF r = "ok" THEN "TypeError" ELSE r
            IN /\ ctx' = sfCatch(ctx, code)
               /\ resLog' = sfCatchLog(ctx, code, resLog)
               /\ sf' = sfReturn([sf EXCEPT !.err = code], "false")
    /\ OwnerResumes
    /\ UNCHANGED <<other, error, method, middlewares, hr, reqTimer, abortSlot, aborts, ingest, en,
                   timers, order, sreq>>

\* fsOpen settles (large-file path).  On success: fd is set, sendFile's
\* abort callback replaces the registered one, the headers are written in a
\* cork, the loop reads with fs.readSync and writes every chunk unless
\* _aborted (rd is what readSync does), and fsClose(fd) is awaited with fd
\* still set.  A failing read, or ctx.res being null, goes to the catch,
\* which awaits fsClose(fd) as well.
OpenDone(r, rd) ==
    /\ run = Idle /\ sf.state = "open"
    /\ IF r # "ok"
       THEN /\ ctx' = sfCatch(ctx, r)
            /\ resLog' = sfCatchLog(ctx, r, resLog)
            /\ sf' = sfReturn([sf EXCEPT !.err = r], "false")
            /\ OwnerResumes
            /\ UNCHANGED abortSlot
       ELSE IF ctx.res = "null"
            THEN /\ sf' = [sf EXCEPT !.fd = "open", !.opens = @ + 1, !.closes = @ + 1,
                              !.state = "closeCatch", !.err = "TypeError"]
                 /\ UNCHANGED <<ctx, resLog, abortSlot, st, pcs, run>>
            ELSE /\ abortSlot' = "sendFile"
                 /\ resLog' =
                       LET head == Append(resLog, [op |-> "fileHead", status |-> 200,
                                                   headers |-> FileHeaders,
                                                   body |-> "none"])
                       IN IF ~ctx.aborted /\ rd = "ok"
                          THEN Append(head, [op |-> "fileChunk", status |-> 200,
                                             headers |-> {}, body |-> "file"])
                          ELSE head
                 /\ sf' = [sf EXCEPT !.fd = "open", !.opens = @ + 1, !.closes = @ + 1,
                              !.contentLength = sf.size,
                              !.sent = IF ~ctx.aborted /\ rd = "ok"
                                       THEN streamed(0, sf.size) ELSE 0,
                              !.state = IF ~ctx.aborted /\ rd # "ok" THEN "closeCatch"
                                        ELSE "close",
                              !.err = IF ~ctx.aborted /\ rd # "ok" THEN rd ELSE @]
                 /\ UNCHANGED <<ctx, st, pcs, run>>
    /\ UNCHANGED <<other, error, method, middlewares, hr, reqTimer, aborts, ingest, en, timers, order,
                   sreq>>

\* await fsClose(fd) after the loop settles: fd = null, then res.end() in a
\* cork and _ended = true unless _aborted.  With ctx.res null the cork is a
\* TypeError and the catch returns false (the Context is ended or aborted
\* whenever ctx.res is null).
CloseDone ==
    /\ run = Idle /\ sf.state = "close"
    /\ sf' = sfReturn([sf EXCEPT !.fd = "null"],
                      IF ~ctx.aborted /\ ctx.res = "live" THEN "true" ELSE "false")
    /\ IF ~ctx.aborted
       THEN IF ctx.res = "live"
            THEN /\ resLog' = Append(resLog, [op |-> "fileEnd", status |-> 200,
                                              headers |-> {}, body |-> "none"])
                 /\ ctx' = [ctx EXCEPT !.ended = TRUE]
            ELSE /\ ctx' = sfCatch(ctx, "TypeError")
                 /\ resLog' = sfCatchLog(ctx, "TypeError", resLog)
       ELSE UNCHANGED <<ctx, resLog>>
    /\ OwnerResumes
    /\ UNCHANGED <<other, error, method, middlewares, hr, reqTimer, abortSlot, aborts, ingest, en,
                   timers, order, sreq>>

\* await fsClose(fd) inside the catch settles: fd = null, then the error
\* response unless the Context is aborted or ended.
CloseCatchDone ==
    /\ run = Idle /\ sf.state = "closeCatch"
    /\ sf' = sfReturn([sf EXCEPT !.fd = "null"], "false")
    /\ ctx' = sfCatch(ctx, sf.err)
    /\ resLog' = sfCatchLog(ctx, sf.err, resLog)
    /\ OwnerResumes
    /\ UNCHANGED <<other, error, method, middlewares, hr, reqTimer, abortSlot, aborts, ingest, en,
                   timers, order, sreq>>

\* ----------------------------------------------------------------- Next
Next ==
    \/ HandleRequest
    \/ AfterParseBody
    \/ AfterChain
    \/ CatchChain
    \/ \E i \in Stages : StageNext(i)
    \/ \E i \in Stages : StageIo(i)
    \/ \E i \in Stages : IoDone(i)
    \/ \E i \in Stages : StageSend(i)
    \/ \E i \in Stages : StageSet(i)
    \/ \E i \in Stages, s \in ErrStatuses : StageThrow(i, s)
    \/ \E i \in Stages : StageReturn(i)
    \/ \E i \in Stages : StageSendFile(i)
    \/ \E i \in Stages : ExecuteNextResolved(i)
    \/ \E i \in Stages : ExecuteNextRejected(i)
    \/ StageTimeout
    \/ RequestTimeout
    \/ \E len \in ChunkSizes, isLast \in BOOLEAN : Chunk(len, isLast)
    \/ Abort
    \/ \E r \in StatResults : StatDone(r)
    \/ \E r \in {"ok", "EIO"} : ReadFileDone(r)
    \/ \E r \in {"ok", "ENOENT", "EIO"}, rd \in {"ok", "EIO"} : OpenDone(r, rd)
    \/ CloseDone
    \/ CloseCatchDone

Spec == Init /\ [][Next]_vars

\* The abort signal is delivered again: the callback res.onAborted holds
\* at that time runs once more.
AbortAgain ==
    /\ run = Idle
    /\ aborts >= 1 /\ aborts < MaxAborts
    /\ EndCount(resLog) = 0
    /\ aborts' = aborts + 1
    /\ Deliver
    /\ UNCHANGED <<other, error, method, middlewares, hr, abortSlot, resLog, st, pcs, en, timers,
                   order, sreq>>

NextAbort == Next \/ AbortAgain

SpecAbort == Init /\ [][NextAbort]_vars

\* --------------------------------------------------------- registration
\* A new uWebKoa(options) whose stages are registered while the model looks
\* on: the constructor has run, with or without the default error handler.
InitUse ==
    /\ method \in {"GET", "POST"}
    /\ middlewares \in {<<"errh">>, <<>>}
    /\ hr = "new"
    /\ run = Idle
    /\ ctx = [aborted |-> FALSE, ended |-> FALSE, res |-> "live", req |-> "live",
              status |-> 200,
              headers |-> {}, body |-> "null", reqBody |-> "unset"]
    /\ reqTimer = "none"
    /\ abortSlot = "none"
    /\ aborts = 0
    /\ resLog = <<>>
    /\ ingest = [promise |-> "none", totalSize |-> 0, nChunks |-> 0, last |-> FALSE,
                 concat |-> FALSE, late |-> FALSE]
    /\ st = [i \in 1..Len(middlewares) |-> "idle"]
    /\ pcs = [i \in 1..Len(middlewares) |-> 1]
    /\ en = [i \in 1..Len(middlewares) |-> "none"]
    /\ timers = <<>>
    /\ order = <<>>
    /\ sf = NoFile
    /\ sreq = NoStatic
    /\ error = "none"
    /\ env = "production"
    /\ rl = NoLimit
    /\ listening = FALSE
    /\ breq = NoBody
    /\ rt = NoRoute
    /\ cluster = NoCluster

\* The stage list becomes list; executeMiddleware will build its
\* middlewareStack from it when the request arrives.
Registered(list) ==
    /\ middlewares' = list
    /\ st' = [i \in 1..Len(list) |-> "idle"]
    /\ pcs' = [i \in 1..Len(list) |-> 1]
    /\ en' = [i \in 1..Len(list) |-> "none"]
    /\ UNCHANGED <<env, rl, method, hr, run, ctx, reqTimer, abortSlot, aborts, resLog, ingest,
                   timers, order, sf, sreq, error, listening, breq, rt, cluster>>

\* app.use(middleware), also through get/post/put/delete and serveStatic:
\* this.middlewares.push(middleware).  The request the model follows has not
\* arrived yet.
Use(kind) ==
    /\ hr = "new"
    /\ Len(middlewares) <= MaxStages
    /\ Registered(Append(middlewares, kind))

\* app.useDefaultErrorHandler(): this.middlewares.unshift(...)
UseDefaultErrorHandler ==
    /\ hr = "new"
    /\ Len(middlewares) <= MaxStages
    /\ Registered(<<"errh">> \o middlewares)

\* app.listen(port): applyToApp routes every request to handleRequest and
\* the server starts accepting connections.
Listen ==
    /\ ~listening
    /\ listening' = TRUE
    /\ UNCHANGED <<env, rl, method, middlewares, hr, run, ctx, reqTimer, abortSlot, aborts, resLog,
                   ingest, st, pcs, en, timers, order, sf, sreq, error, breq, rt, cluster>>

NextUse ==
    \/ Next
    \/ Listen
    \/ \E kind \in UserKinds : Use(kind)
    \/ UseDefaultErrorHandler

SpecUse == InitUse /\ [][NextUse]_vars

\* Sanity: ctx.res is null only after the Context is ended or aborted, so
\* ctx.send() never reaches this.res.cork on a null res.
ResNullOnlyAfterFlag == ctx.res = "null" => (ctx.ended \/ ctx.aborted)

\* ----------------------------------------------------- path resolution
\* Paths are strings, modelled as sequences of characters.
Chars == {"/", ".", "p", "x"}
ROOT_DIR == <<"/", "a">>                   \* options.rootDir, an absolute directory
STATIC_PREFIX == <<"/", "s", "/">>         \* urlPrefix of serveStatic('/s', './p')
STATIC_DIR == <<".", "/", "p", "/">>       \* its rootDir, normalised to end in '/'

StartsWith(str, pre) == Len(pre) <= Len(str) /\ SubSeq(str, 1, Len(pre)) = pre

RECURSIVE SplitAcc(_, _, _)
SplitAcc(str, cur, acc) ==
    IF str = <<>> THEN (IF cur = <<>> THEN acc ELSE Append(acc, cur))
    ELSE IF Head(str) = "/"
         THEN SplitAcc(Tail(str), <<>>, IF cur = <<>> THEN acc ELSE Append(acc, cur))
         ELSE SplitAcc(Tail(str), Append(cur, Head(str)), acc)
\* the non-empty segments between separators
Split(str) == SplitAcc(str, <<>>, <<>>)

RECURSIVE NormalizeAcc(_, _)
NormalizeAcc(segs, stack) ==
    IF segs = <<>> THEN stack
    ELSE LET seg == Head(segs)
         IN IF seg = <<".">> THEN NormalizeAcc(Tail(segs), stack)
            ELSE IF seg = <<".", ".">>
                 THEN NormalizeAcc(Tail(segs),
                                   IF stack = <<>> THEN stack
                                   ELSE SubSeq(stack, 1, Len(stack) - 1))
                 ELSE NormalizeAcc(Tail(segs), Append(stack, seg))

RECURSIVE Join(_)
Join(segs) == IF segs = <<>> THEN <<>> ELSE <<"/">> \o Head(segs) \o Join(Tail(segs))

\* path.resolve(...args) on POSIX: the arguments are taken from the right
\* until one is absolute (the working directory, here ROOT_DIR, if none is),
\* then '.', '..' and repeated separators are resolved; '..' at the root
\* stays at the root.
RECURSIVE ResolveJoin(_, _, _)
ResolveJoin(args, i, acc) ==
    IF i = 0 THEN ROOT_DIR \o <<"/">> \o acc
    ELSE IF args[i] = <<>> THEN ResolveJoin(args, i - 1, acc)
         ELSE IF Head(args[i]) = "/" THEN args[i] \o <<"/">> \o acc
              ELSE ResolveJoin(args, i - 1, args[i] \o <<"/">> \o acc)
resolve(args) ==
    LET segs == NormalizeAcc(Split(ResolveJoin(args, Len(args), <<>>)), <<>>)
    IN IF segs = <<>> THEN <<"/">> ELSE Join(segs)

\* The file location p lies in the directory dir or below it.
Within(p, dir) ==
    LET ps == Split(p)
        ds == Split(dir)
    IN Len(ds) <= Len(ps) /\ SubSeq(ps, 1, Len(ds)) = ds

\* ctx.sendFile(filePath), up to the call of fs.promises.stat: one leading
\* '/' is dropped and the rest resolved against options.rootDir.
sendFilePath(filePath) ==
    resolve(<<ROOT_DIR,
              IF filePath # <<>> /\ Head(filePath) = "/" THEN Tail(filePath)
              ELSE filePath>>)

\* serveStatic's stage: the path it checks and hands to ctx.sendFile
staticFullPath(url) ==
    resolve(<<ROOT_DIR, STATIC_DIR, SubSeq(url, Len(STATIC_PREFIX) + 1, Len(url))>>)
staticRoot == resolve(<<ROOT_DIR, STATIC_DIR>>)

PathStrings == UNION {[1..n -> Chars] : n \in 0..MaxRelLen}

\* One GET per behaviour: either a URL under the static prefix that the
\* serveStatic stage serves, or a path that a handler passes to ctx.sendFile.
InitStatic ==
    /\ method = "GET"
    /\ middlewares = <<"file">>
    /\ hr = "chain"
    /\ run = Idle
    /\ ctx = [aborted |-> FALSE, ended |-> FALSE, res |-> "live", req |-> "live",
              status |-> 200,
              headers |-> {}, body |-> "null", reqBody |-> "empty"]
    /\ reqTimer = "armed"
    /\ abortSlot = "handleRequest"
    /\ aborts = 0
    /\ resLog = <<>>
    /\ ingest = [promise |-> "none", totalSize |-> 0, nChunks |-> 0, last |-> FALSE,
                 concat |-> FALSE, late |-> FALSE]
    /\ st = <<"run">>
    /\ pcs = <<1>>
    /\ en = <<"called">>
    /\ timers = <<>>
    /\ order = <<>>
    /\ sf = NoFile
    /\ \E mode \in {"static", "direct"}, str \in PathStrings :
          sreq = [NoStatic EXCEPT !.mode = mode, !.phase = "new",
                                  !.url = IF mode = "static" THEN STATIC_PREFIX \o str
                                          ELSE <<"/">> \o str,
                                  !.arg = str]
    /\ error = "none"
    /\ env = "production"
    /\ rl = NoLimit
    /\ listening = TRUE
    /\ breq = NoBody
    /\ rt = NoRoute
    /\ cluster = NoCluster

\* The stage serveStatic registers, for a GET whose URL starts with the prefix.
ServeStatic ==
    /\ sreq.mode = "static" /\ sreq.phase = "new"
    /\ method = "GET" /\ StartsWith(sreq.url, STATIC_PREFIX)
    /\ ~ctx.ended /\ ~ctx.aborted
    /\ IF ~StartsWith(staticFullPath(sreq.url), staticRoot)
       THEN /\ ctx' = [ctx EXCEPT !.status = 403]
            /\ sreq' = [sreq EXCEPT !.phase = "forbidden"]
       ELSE /\ sreq' = [sreq EXCEPT !.phase = "sendFile", !.called = TRUE,
                                    !.sendFileArg = staticFullPath(sreq.url)]
            /\ UNCHANGED ctx
    /\ UNCHANGED <<other, error, method, middlewares, hr, run, reqTimer, abortSlot, aborts, resLog,
                   ingest, st, pcs, en, timers, order, sf>>

\* A handler calls ctx.sendFile(path) with a path of the application's.
HandlerSendFile ==
    /\ sreq.mode = "direct" /\ sreq.phase = "new"
    /\ sreq' = [sreq EXCEPT !.phase = "sendFile", !.called = TRUE, !.sendFileArg = sreq.arg]
    /\ UNCHANGED <<other, error, method, middlewares, hr, run, ctx, reqTimer, abortSlot, aborts, resLog,
                   ingest, st, pcs, en, timers, order, sf>>

\* ctx.sendFile resolves the path and awaits fs.promises.stat(fullPath).
SendFileStat ==
    /\ sreq.phase = "sendFile"
    /\ ~ctx.ended /\ ~ctx.aborted
    /\ sreq' = [sreq EXCEPT !.phase = "stat", !.statPath = sendFilePath(sreq.sendFileArg)]
    /\ sf' = [NoFile EXCEPT !.state = "stat", !.owner = 1]
    /\ st' = [st EXCEPT ![1] = "file"]
    /\ UNCHANGED <<other, error, method, middlewares, hr, run, ctx, reqTimer, abortSlot, aborts, resLog,
                   ingest, pcs, en, timers, order>>

NextStatic == ServeStatic \/ HandlerSendFile \/ SendFileStat

SpecStatic == InitStatic /\ [][NextStatic]_vars

\* --------------------------------------------------------- request bodies
\* Content-Type header values: none, JSON, JSON with a parameter, form
ContentTypes ==
    { <<>>, <<"application/json">>, <<"application/json", "; charset=utf-8">>,
      <<"application/x-www-form-urlencoded">> }
JsonChars == {"1", "[", "]", ","}
FormChars == {"k", "=", "&", "%", "4"}
BodyTexts ==
    UNION {[1..n -> JsonChars] : n \in 0..MaxJsonLen}
      \cup UNION {[1..n -> FormChars] : n \in 0..MaxFormLen}

\* One POST whose body is breq.text, handled by one application stage.
InitBody ==
    /\ method = "POST"
    /\ middlewares = <<"onion">>
    /\ hr = "new"
    /\ run = Idle
    /\ ctx = [aborted |-> FALSE, ended |-> FALSE, res |-> "live", req |-> "live",
              status |-> 200,
              headers |-> {}, body |-> "null", reqBody |-> "unset"]
    /\ reqTimer = "none"
    /\ abortSlot = "none"
    /\ aborts = 0
    /\ resLog = <<>>
    /\ ingest = [promise |-> "none", totalSize |-> 0, nChunks |-> 0, last |-> FALSE,
                 concat |-> FALSE, late |-> FALSE]
    /\ st = [i \in 1..Len(middlewares) |-> "idle"]
    /\ pcs = [i \in 1..Len(middlewares) |-> 1]
    /\ en = [i \in 1..Len(middlewares) |-> "none"]
    /\ timers = <<>>
    /\ order = <<>>
    /\ sf = NoFile
    /\ sreq = NoStatic
    /\ error = "none"
    /\ env = "production"
    /\ rl = NoLimit
    /\ listening = TRUE
    /\ breq \in [mode : {"on"}, contentType : ContentTypes, text : BodyTexts,
                  decoded : {Unset}]
    /\ rt = NoRoute
    /\ cluster = NoCluster

\* The transport delivers the whole body as one last chunk.
BodyChunk == Chunk(Len(breq.text), TRUE)

NextBody ==
    \/ HandleRequest
    \/ BodyChunk
    \/ AfterParseBody
    \/ \E i \in Stages : StageSet(i)
    \/ \E i \in Stages : StageNext(i)
    \/ \E i \in Stages : StageReturn(i)
    \/ \E i \in Stages : ExecuteNextResolved(i)
    \/ AfterChain
    \/ StageTimeout
    \/ RequestTimeout
    \/ Abort

SpecBody == InitBody /\ [][NextBody]_vars

\* ------------------------------------------------------------------ routes
\* Patterns an application registers with app.get(pattern, ...handlers), and
\* the URLs req.getUrl() gives (a path, without the query string, so that
\* url.split('?')[0] is the URL itself).
Patterns ==
    { <<"/", "a", "/", ":", "i">>, <<"/", ":", "i">>, <<"/", ":", "i", "/", ":", "j">>,
      <<"/", "a", "/", "*">>, <<"/", "a">> }
UrlChars == {"/", "a", "b"}
Urls == {<<"/">> \o str : str \in UNION {[1..n -> UrlChars] : n \in 0..MaxUrlLen}}
\* what a handler does: await next(), respond without calling next, throw
HandlerKinds == {"next", "respond", "throw"}

toLowerCase(m) ==
    CASE m = "GET" -> "get" [] m = "POST" -> "post" [] m = "HEAD" -> "head" [] OTHER -> m

\* pattern.endsWith('/*')
endsWithWildcard(pattern) ==
    Len(pattern) >= 2 /\ SubSeq(pattern, Len(pattern) - 1, Len(pattern)) = <<"/", "*">>

\* uWebKoa.matchPattern(url, pattern): str.split('/').filter(Boolean) is Split
matchPattern(url, pattern) ==
    IF endsWithWildcard(pattern)
    THEN LET prefix == SubSeq(pattern, 1, Len(pattern) - 2)
         IN url = prefix \/ StartsWith(url, prefix \o <<"/">>)
    ELSE LET urlParts == Split(url)
             patternParts == Split(pattern)
         IN /\ Len(urlParts) = Len(patternParts)
            /\ \A i \in DOMAIN patternParts :
                  \/ Head(patternParts[i]) = ":"
                  \/ patternParts[i] = <<"*">>
                  \/ patternParts[i] = urlParts[i]

\* urlParts[i] || '' of ctx.parseParams, urlParts being url.split('/')
\* (i counts from 1 here)
urlPart(url, i) == IF i \in DOMAIN split(url, "/") THEN split(url, "/")[i] ELSE <<>>

\* ctx.parseParams(pattern): for every piece i of pattern.split('/') that
\* starts with ':', params[name] = urlParts[i] || ''
RECURSIVE parseParamsFrom(_, _, _, _)
parseParamsFrom(url, patternParts, i, params) ==
    IF i > Len(patternParts) THEN params
    ELSE LET part == patternParts[i]
         IN IF part # <<>> /\ Head(part) = ":"
            THEN parseParamsFrom(url, patternParts, i + 1,
                                 {q \in params : q[1] # Tail(part)}
                                     \cup {<<Tail(part), urlPart(url, i)>>})
            ELSE parseParamsFrom(url, patternParts, i + 1, params)
parseParams(url, pattern) == parseParamsFrom(url, split(pattern, "/"), 1, {})

\* One request reaching the stage app.get(rt.pattern, ...rt.handlers).
InitRoute ==
    /\ method \in {"GET", "POST"}
    /\ middlewares = <<"onion">>
    /\ hr = "chain"
    /\ run = Idle
    /\ ctx = [aborted |-> FALSE, ended |-> FALSE, res |-> "live", req |-> "live",
              status |-> 200,
              headers |-> {}, body |-> "null", reqBody |-> "empty"]
    /\ reqTimer = "armed"
    /\ abortSlot = "handleRequest"
    /\ aborts = 0
    /\ resLog = <<>>
    /\ ingest = [promise |-> "none", totalSize |-> 0, nChunks |-> 0, last |-> FALSE,
                 concat |-> FALSE, late |-> FALSE]
    /\ st = <<"run">>
    /\ pcs = <<1>>
    /\ en = <<"called">>
    /\ timers = <<>>
    /\ order = <<>>
    /\ sf = NoFile
    /\ sreq = NoStatic
    /\ error = "none"
    /\ env = "production"
    /\ rl = NoLimit
    /\ listening = TRUE
    /\ breq = NoBody
    /\ rt \in [mode : {"on"}, phase : {"new"}, method : {"get"}, url : Urls,
                pattern : Patterns, handlers : SeqsUpTo(HandlerKinds, MaxHandlers),
                matched : {FALSE}, params : {{}}, index : {0}, ran : {<<>>},
                nextStage : {FALSE}]
    /\ cluster = NoCluster

\* routeNext(): next() of the stage once every handler has been taken, else
\* handlers[index++] is called.
routeNext(r) ==
    IF r.index >= Len(r.handlers)
    THEN [r EXCEPT !.nextStage = TRUE, !.phase = "done"]
    ELSE [r EXCEPT !.index = @ + 1, !.ran = Append(@, r.index + 1), !.phase = "handler"]

\* The stage route(method, pattern, ...handlers) returns is called: on a
\* match parseParams, then routeNext(); else next().
RouteStage ==
    /\ rt.mode = "on" /\ rt.phase = "new"
    /\ IF toLowerCase(method) = toLowerCase(rt.method) /\ matchPattern(rt.url, rt.pattern)
       THEN rt' = routeNext([rt EXCEPT !.matched = TRUE,
                                       !.params = parseParams(rt.url, rt.pattern)])
       ELSE rt' = [rt EXCEPT !.nextStage = TRUE, !.phase = "done"]
    /\ UNCHANGED <<env, rl, listening, breq, cluster, error, method, middlewares, hr, run, ctx, reqTimer,
                   abortSlot, aborts, resLog, ingest, st, pcs, en, timers, order, sf, sreq>>

\* Variant of invokesNext in which returning from a handler also moves on.
invokesNext_always(kind) == kind # "throw"

\* whether the handler calls the next it was given (routeNext)
invokesNext(kind) == kind = "next"

\* The handler routeNext called runs.
RouteHandler ==
    /\ rt.mode = "on" /\ rt.phase = "handler"
    /\ LET kind == rt.handlers[rt.index]
       IN rt' = IF invokesNext(kind) THEN routeNext(rt)
                ELSE [rt EXCEPT !.phase = IF kind = "throw" THEN "failed" ELSE "done"]
    /\ UNCHANGED <<env, rl, listening, breq, cluster, error, method, middlewares, hr, run, ctx, reqTimer,
                   abortSlot, aborts, resLog, ingest, st, pcs, en, timers, order, sf, sreq>>

NextRoute == RouteStage \/ RouteHandler

SpecRoute == InitRoute /\ [][NextRoute]_vars

\* ------------------------------------------------------ multi-process mode
\* os.cpus().length of the machine
CpuCount == 2

\* Why a worker process ends, and what the primary's 'exit' event then
\* carries: code is the exit status, null if a signal ended the process;
\* exitedAfterDisconnect is set if the primary disconnected or killed it.
\*   crash       uncaught exception                    code 1
\*   killed      a signal from outside (SIGKILL, OOM)  code null
\*   exit0       the worker called process.exit(0)     code 0
\*   disconnect  worker.disconnect() / worker.kill()   code 0, flag set
ExitKinds == {"crash", "killed", "exit0", "disconnect"}
exitCode(kind) == CASE kind = "crash" -> "1" [] kind = "killed" -> "null" [] OTHER -> "0"
exitedAfterDisconnect(kind) == kind = "disconnect"

\* const numCPUs = options.workers > 0 ? options.workers : cpus().length
numCPUs(workers) == IF workers > 0 THEN workers ELSE CpuCount

\* Variant of restarts that takes a positive exit code only.
restarts_positiveCode(code, flag) == code = "1" /\ ~flag

\* if (code !== 0 && !worker.exitedAfterDisconnect) of the 'exit' listener
restarts(code, flag) == code # "0" /\ ~flag

\* The primary before listen(port, {cluster: true, workers}).
InitCluster ==
    /\ method = "GET"
    /\ middlewares = <<"onion">>
    /\ hr = "new"
    /\ run = Idle
    /\ ctx = [aborted |-> FALSE, ended |-> FALSE, res |-> "live", req |-> "live",
              status |-> 200,
              headers |-> {}, body |-> "null", reqBody |-> "unset"]
    /\ reqTimer = "none"
    /\ abortSlot = "none"
    /\ aborts = 0
    /\ resLog = <<>>
    /\ ingest = [promise |-> "none", totalSize |-> 0, nChunks |-> 0, last |-> FALSE,
                 concat |-> FALSE, late |-> FALSE]
    /\ st = [i \in 1..Len(middlewares) |-> "idle"]
    /\ pcs = [i \in 1..Len(middlewares) |-> 1]
    /\ en = [i \in 1..Len(middlewares) |-> "none"]
    /\ timers = <<>>
    /\ order = <<>>
    /\ sf = NoFile
    /\ sreq = NoStatic
    /\ error = "none"
    /\ env = "production"
    /\ rl = NoLimit
    /\ listening = FALSE
    /\ breq = NoBody
    /\ rt = NoRoute
    /\ cluster \in [mode : {"on"}, phase : {"new"}, workers : 0..MaxWorkers, live : {0},
                     forks : {0}, events : {<<>>}, exits : {0}, deliberate : {0}]

\* _clusterListen in the primary: the fork loop; the 'exit' listener is
\* registered in the same synchronous run.
ClusterListen ==
    /\ cluster.mode = "on" /\ cluster.phase = "new"
    /\ cluster' = [cluster EXCEPT !.phase = "primary", !.live = numCPUs(cluster.workers),
                                  !.forks = numCPUs(cluster.workers)]
    /\ listening' = TRUE
    /\ UNCHANGED <<env, rl, breq, rt, error, method, middlewares, hr, run, ctx, reqTimer, abortSlot,
                   aborts, resLog, ingest, st, pcs, en, timers, order, sf, sreq>>

\* A worker process ends; the primary will get an 'exit' event for it.
WorkerExits(kind) ==
    /\ cluster.mode = "on" /\ cluster.phase = "primary"
    /\ cluster.live > 0 /\ cluster.exits < MaxExits
    /\ cluster' = [cluster EXCEPT !.live = @ - 1, !.exits = @ + 1,
                                  !.events = Append(@, kind),
                                  !.deliberate = IF kind \in {"exit0", "disconnect"}
                                                 THEN @ + 1 ELSE @]
    /\ UNCHANGED <<env, rl, listening, breq, rt, error, method, middlewares, hr, run, ctx, reqTimer,
                   abortSlot, aborts, resLog, ingest, st, pcs, en, timers, order, sf, sreq>>

\* The primary's cluster.on('exit') listener runs for the oldest event.
ExitEvent ==
    /\ cluster.mode = "on" /\ cluster.phase = "primary"
    /\ cluster.events # <<>>
    /\ LET kind == Head(cluster.events)
           fork == restarts(exitCode(kind), exitedAfterDisconnect(kind))
       IN cluster' = [cluster EXCEPT !.events = Tail(@),
                                     !.live = IF fork THEN @ + 1 ELSE @,
                                     !.forks = IF fork THEN @ + 1 ELSE @]
    /\ UNCHANGED <<env, rl, listening, breq, rt, error, method, middlewares, hr, run, ctx, reqTimer,
                   abortSlot, aborts, resLog, ingest, st, pcs, en, timers, order, sf, sreq>>

NextCluster == ClusterListen \/ (\E kind \in ExitKinds : WorkerExits(kind)) \/ ExitEvent

\* The primary's event loop delivers every 'exit' event.
SpecCluster == InitCluster /\ [][NextCluster]_vars /\ WF_vars(ExitEvent)

\* ------------------------------------------------------- multi-thread mode
\* Whether the file a worker thread is started with calls listen() when it
\* is evaluated.  The file is __filename, this module (new Worker(__filename,
\* ...)): its top level imports, defines ErrorHandler and uWebKoa and
\* exports the class; it neither constructs an application nor calls listen.
entryCallsListen == FALSE

\* The main thread before listen(port, {threads: true, workers}).
InitThreads ==
    /\ method = "GET"
    /\ middlewares = <<"onion">>
    /\ hr = "new"
    /\ run = Idle
    /\ ctx = [aborted |-> FALSE, ended |-> FALSE, res |-> "live", req |-> "live",
              status |-> 200,
              headers |-> {}, body |-> "null", reqBody |-> "unset"]
    /\ reqTimer = "none"
    /\ abortSlot = "none"
    /\ aborts = 0
    /\ resLog = <<>>
    /\ ingest = [promise |-> "none", totalSize |-> 0, nChunks |-> 0, last |-> FALSE,
                 concat |-> FALSE, late |-> FALSE]
    /\ st = [i \in 1..Len(middlewares) |-> "idle"]
    /\ pcs = [i \in 1..Len(middlewares) |-> 1]
    /\ en = [i \in 1..Len(middlewares) |-> "none"]
    /\ timers = <<>>
    /\ order = <<>>
    /\ sf = NoFile
    /\ sreq = NoStatic
    /\ error = "none"
    /\ env = "production"
    /\ rl = NoLimit
    /\ listening = FALSE
    /\ breq = NoBody
    /\ rt = NoRoute
    /\ cluster \in [mode : {"threads"}, phase : {"new"}, workers : 0..MaxWorkers,
                     slots : {<<>>}, events : {<<>>}, attached : {{}}, exits : {0}]

\* new Worker(__filename, {workerData}); listeners is whether 'message',
\* 'error' and 'exit' listeners were put on it, gen counts the restarts of
\* the slot
newWorker(gen, listeners) == [state |-> "running", gen |-> gen, listeners |-> listeners]

\* _threadListen in the main thread: app.listen(port), then one Worker per
\* thread, each with its three listeners.
ThreadListen ==
    /\ cluster.mode = "threads" /\ cluster.phase = "new"
    /\ cluster' = [cluster EXCEPT !.phase = "main",
                                  !.slots = [i \in 1..numCPUs(cluster.workers) |->
                                                newWorker(0, TRUE)]]
    /\ listening' = TRUE
    /\ UNCHANGED <<env, rl, breq, rt, error, method, middlewares, hr, run, ctx, reqTimer, abortSlot,
                   aborts, resLog, ingest, st, pcs, en, timers, order, sf, sreq>>

\* Worker thread i has evaluated its file.  If that called listen(), the
\* worker branch of _threadListen posts workerApp.getDescriptor() and the
\* thread stays; otherwise nothing keeps the thread alive and it exits
\* with code 0.  Events of a Worker without listeners reach nobody.
WorkerRuns(i) ==
    /\ cluster.mode = "threads" /\ cluster.phase = "main"
    /\ i \in DOMAIN cluster.slots /\ cluster.slots[i].state = "running"
    /\ LET w == cluster.slots[i]
           ev == IF entryCallsListen
                 THEN [kind |-> "message", i |-> i, code |-> "none"]
                 ELSE [kind |-> "exit", i |-> i, code |-> "0"]
       IN cluster' = [cluster EXCEPT
                         !.slots[i].state = IF entryCallsListen THEN "serving" ELSE "exited",
                         !.events = IF w.listeners THEN Append(@, ev) ELSE @]
    /\ UNCHANGED <<env, rl, listening, breq, rt, error, method, middlewares, hr, run, ctx, reqTimer,
                   abortSlot, aborts, resLog, ingest, st, pcs, en, timers, order, sf, sreq>>

\* Worker thread i ends with an uncaught exception: 'error', then 'exit'
\* with code 1.  A Worker without an 'error' listener makes the emit throw
\* in the main thread, which ends the process.
WorkerCrashes(i) ==
    /\ cluster.mode = "threads" /\ cluster.phase = "main"
    /\ i \in DOMAIN cluster.slots /\ cluster.slots[i].state \in {"running", "serving"}
    /\ cluster.exits < MaxExits
    /\ cluster' = [cluster EXCEPT
                      !.exits = @ + 1,
                      !.slots[i].state = "exited",
                      !.phase = IF cluster.slots[i].listeners THEN @ ELSE "crashed",
                      !.events = IF cluster.slots[i].listeners
                                 THEN @ \o << [kind |-> "error", i |-> i, code |-> "none"],
                                              [kind |-> "exit", i |-> i, code |-> "1"] >>
                                 ELSE @]
    /\ UNCHANGED <<env, rl, listening, breq, rt, error, method, middlewares, hr, run, ctx, reqTimer,
                   abortSlot, aborts, resLog, ingest, st, pcs, en, timers, order, sf, sreq>>

\* The main thread runs the listener of the oldest worker event:
\* 'message' attaches the descriptor, 'error' logs, 'exit' with a code
\* other than 0 puts a new Worker, without listeners, into workers[i].
MainEvent ==
    /\ cluster.mode = "threads" /\ cluster.phase = "main"
    /\ cluster.events # <<>>
    /\ LET ev == Head(cluster.events)
       IN cluster' =
            CASE ev.kind = "message" ->
                   [cluster EXCEPT !.events = Tail(@), !.attached = @ \cup {ev.i}]
              [] ev.kind = "exit" /\ ev.code # "0" ->
                   [cluster EXCEPT !.events = Tail(@),
                                   !.slots[ev.i] = newWorker(@.gen + 1, FALSE)]
              [] OTHER -> [cluster EXCEPT !.events = Tail(@)]
    /\ UNCHANGED <<env, rl, listening, breq, rt, error, method, middlewares, hr, run, ctx, reqTimer,
                   abortSlot, aborts, resLog, ingest, st, pcs, en, timers, order, sf, sreq>>

NextThreads ==
    \/ ThreadListen
    \/ \E i \in 1..(MaxWorkers + 1) : WorkerRuns(i)
    \/ \E i \in 1..(MaxWorkers + 1) : WorkerCrashes(i)
    \/ MainEvent

\* Every started thread runs its file, and the main thread's event loop
\* delivers every worker event.
SpecThreads ==
    /\ InitThreads /\ [][NextThreads]_vars
    /\ WF_vars(MainEvent)
    /\ \A i \in 1..(MaxWorkers + 1) : WF_vars(WorkerRuns(i))

\* ------------------------------------------------------- error responses
\* Values of process.env.NODE_ENV a deployment runs under.
EnvFlags == {"production", "development", "test", "unset"}

\* Applications with a stage that throws, with or without the default
\* error handler in front.
ThrowingPrograms ==
    {p \in Programs : /\ \A i \in DOMAIN p : p[i] \in {"errh", "slow", "throw"}
                      /\ \E i \in DOMAIN p : p[i] = "throw"}

InitError ==
    /\ method = "GET"
    /\ middlewares \in ThrowingPrograms
    /\ hr = "new"
    /\ run = Idle
    /\ ctx = [aborted |-> FALSE, ended |-> FALSE, res |-> "live", req |-> "live",
              status |-> 200,
              headers |-> {}, body |-> "null", reqBody |-> "unset"]
    /\ reqTimer = "none"
    /\ abortSlot = "none"
    /\ aborts = 0
    /\ resLog = <<>>
    /\ ingest = [promise |-> "none", totalSize |-> 0, nChunks |-> 0, last |-> FALSE,
                 concat |-> FALSE, late |-> FALSE]
    /\ st = [i \in 1..Len(middlewares) |-> "idle"]
    /\ pcs = [i \in 1..Len(middlewares) |-> 1]
    /\ en = [i \in 1..Len(middlewares) |-> "none"]
    /\ timers = <<>>
    /\ order = <<>>
    /\ sf = NoFile
    /\ sreq = NoStatic
    /\ error = "none"
    /\ env \in EnvFlags
    /\ rl = NoLimit
    /\ listening = TRUE
    /\ breq = NoBody
    /\ rt = NoRoute
    /\ cluster = NoCluster

NextError ==
    \/ HandleRequest
    \/ AfterParseBody
    \/ AfterChain
    \/ CatchChain
    \/ \E i \in Stages : StageNext(i)
    \/ \E i \in Stages : StageIo(i)
    \/ \E i \in Stages : IoDone(i)
    \/ \E i \in Stages, s \in ErrStatuses : StageThrow(i, s)
    \/ \E i \in Stages : StageReturn(i)
    \/ \E i \in Stages : ExecuteNextResolved(i)
    \/ \E i \in Stages : ExecuteNextRejected(i)
    \/ StageTimeout
    \/ RequestTimeout
    \/ Abort

SpecError == InitError /\ [][NextError]_vars

\* --------------------------------------------------------------- redirect
\* The URLs a stage redirects to.
RedirectUrls == {"/login", "/home"}

\* Whether the value the body getter returns can be called: the body draft
\* is null, an object or a string, never a function.
callable(body) == body = "function"

\* ctx.redirect(url) up to its last statement: this.status = 302 and
\* this.set('Location', url)
redirectDraft(c, url) == set([c EXCEPT !.status = 302], "Location", url)

\* Stage i calls ctx.redirect(url).  Its last statement calls the value of
\* the body getter, this.body('Redirecting to ' + url): a TypeError (an
\* error without a status property) unless that value is a function.
StageRedirect(i, url) ==
    /\ Running(i) /\ Op(i) = "redirect"
    /\ ctx' = redirectDraft(ctx, url)
    /\ IF callable(ctx.body)
       THEN /\ pcs' = [pcs EXCEPT ![i] = @ + 1]
            /\ UNCHANGED <<st, en, timers, run, error>>
       ELSE /\ st' = [st EXCEPT ![i] = "failed"]
            /\ en' = armed(en)
            /\ timers' = armTimers(en, timers)
            /\ run' = afterStage(en, i, "rejected")
            /\ error' = IF en[i] \in {"called", "racing"} THEN "absent" ELSE "none"
            /\ pcs' = pcs
    /\ UNCHANGED <<other, method, middlewares, hr, reqTimer, abortSlot, aborts, resLog,
                   ingest, order, sf, sreq>>

\* Applications whose last stage redirects, behind stages that call next().
RedirectPrograms ==
    {p \o <<"redirect">> :
        p \in {q \in Programs \cup {<<>>, <<"errh">>} :
                   \A i \in DOMAIN q : q[i] \in {"errh", "onion", "slow"}}}

InitRedirect ==
    /\ method = "GET"
    /\ middlewares \in RedirectPrograms
    /\ hr = "new"
    /\ run = Idle
    /\ ctx = [aborted |-> FALSE, ended |-> FALSE, res |-> "live", req |-> "live",
              status |-> 200,
              headers |-> {}, body |-> "null", reqBody |-> "unset"]
    /\ reqTimer = "none"
    /\ abortSlot = "none"
    /\ aborts = 0
    /\ resLog = <<>>
    /\ ingest = [promise |-> "none", totalSize |-> 0, nChunks |-> 0, last |-> FALSE,
                 concat |-> FALSE, late |-> FALSE]
    /\ st = [i \in 1..Len(middlewares) |-> "idle"]
    /\ pcs = [i \in 1..Len(middlewares) |-> 1]
    /\ en = [i \in 1..Len(middlewares) |-> "none"]
    /\ timers = <<>>
    /\ order = <<>>
    /\ sf = NoFile
    /\ sreq = NoStatic
    /\ error = "none"
    /\ env = "production"
    /\ rl = NoLimit
    /\ listening = TRUE
    /\ breq = NoBody
    /\ rt = NoRoute
    /\ cluster = NoCluster

NextRedirect ==
    \/ HandleRequest
    \/ AfterParseBody
    \/ AfterChain
    \/ CatchChain
    \/ \E i \in Stages : StageNext(i)
    \/ \E i \in Stages : StageIo(i)
    \/ \E i \in Stages : IoDone(i)
    \/ \E i \in Stages : StageSet(i)
    \/ \E i \in Stages, url \in RedirectUrls : StageRedirect(i, url)
    \/ \E i \in Stages : StageReturn(i)
    \/ \E i \in Stages : ExecuteNextResolved(i)
    \/ \E i \in Stages : ExecuteNextRejected(i)
    \/ StageTimeout
    \/ RequestTimeout
    \/ Abort

SpecRedirect == InitRedirect /\ [][NextRedirect]_vars

\* ------------------------------------------------------ repeated next()
\* Applications with a stage that calls next() more than once, one call after
\* the other or both at once.
TwiceKinds == {"twice", "both", "onion", "slow", "send"}
TwicePrograms ==
    {p \in SeqsUpTo(TwiceKinds, MaxStages + 1) :
        \E i \in DOMAIN p : p[i] \in {"twice", "both"}}

InitTwice ==
    /\ method = "GET"
    /\ middlewares \in TwicePrograms
    /\ hr = "new"
    /\ run = Idle
    /\ ctx = [aborted |-> FALSE, ended |-> FALSE, res |-> "live", req |-> "live",
              status |-> 200,
              headers |-> {}, body |-> "null", reqBody |-> "unset"]
    /\ reqTimer = "none"
    /\ abortSlot = "none"
    /\ aborts = 0
    /\ resLog = <<>>
    /\ ingest = [promise |-> "none", totalSize |-> 0, nChunks |-> 0, last |-> FALSE,
                 concat |-> FALSE, late |-> FALSE]
    /\ st = [i \in 1..Len(middlewares) |-> "idle"]
    /\ pcs = [i \in 1..Len(middlewares) |-> 1]
    /\ en = [i \in 1..Len(middlewares) |-> "none"]
    /\ timers = <<>>
    /\ order = <<>>
    /\ sf = NoFile
    /\ sreq = NoStatic
    /\ error = "none"
    /\ env = "production"
    /\ rl = NoLimit
    /\ listening = TRUE
    /\ breq = NoBody
    /\ rt = NoRoute
    /\ cluster = NoCluster

NextTwice ==
    \/ HandleRequest
    \/ AfterParseBody
    \/ AfterChain
    \/ \E i \in Stages : StageNext(i)
    \/ \E i \in Stages : StageNextBoth(i)
    \/ \E i \in Stages : StageIo(i)
    \/ \E i \in Stages : IoDone(i)
    \/ \E i \in Stages : StageSet(i)
    \/ \E i \in Stages : StageSend(i)
    \/ \E i \in Stages : StageReturn(i)
    \/ \E i \in Stages : ExecuteNextResolved(i)
    \/ StageTimeout
    \/ RequestTimeout
    \/ Abort

SpecTwice == InitTwice /\ [][NextTwice]_vars

\* ------------------------------------------------------- the event loop
\* A continuation that is ready (a microtask, or the rest of the running
\* call stack) runs before the event loop takes the next macrotask.
Microtask == run # Idle /\ Next

\* The event loop runs every ready continuation and fires every timer that
\* setTimeout created; it promises nothing about the client (chunks, aborts)
\* or about I/O ever completing.
SpecLive == Init /\ [][Next]_vars /\ WF_vars(Microtask) /\ WF_vars(StageTimeout)

\* ------------------------------------------------- cluster: shared state
\* The values workers give one key of the shared state, and the worker
\* processes that run (the primary forked them and none has exited).
SharedValues == {"v1", "v2"}
SharedWorkers == 1..MaxWorkers

\* The primary and its workers after _clusterListen: sharedState is empty in
\* the primary, context.shared has no entry for the key in any worker, and
\* no message is in flight.  up[w] and down[w] are the two directions of
\* worker w's IPC channel.
InitShared ==
    /\ method = "GET"
    /\ middlewares = <<"onion">>
    /\ hr = "new"
    /\ run = Idle
    /\ ctx = [aborted |-> FALSE, ended |-> FALSE, res |-> "live", req |-> "live",
              status |-> 200,
              headers |-> {}, body |-> "null", reqBody |-> "unset"]
    /\ reqTimer = "none"
    /\ abortSlot = "none"
    /\ aborts = 0
    /\ resLog = <<>>
    /\ ingest = [promise |-> "none", totalSize |-> 0, nChunks |-> 0, last |-> FALSE,
                 concat |-> FALSE, late |-> FALSE]
    /\ st = [i \in 1..Len(middlewares) |-> "idle"]
    /\ pcs = [i \in 1..Len(middlewares) |-> 1]
    /\ en = [i \in 1..Len(middlewares) |-> "none"]
    /\ timers = <<>>
    /\ order = <<>>
    /\ sf = NoFile
    /\ sreq = NoStatic
    /\ error = "none"
    /\ env = "production"
    /\ rl = NoLimit
    /\ listening = TRUE
    /\ breq = NoBody
    /\ rt = NoRoute
    /\ cluster = [mode |-> "shared", sharedState |-> "unset",
                  shared |-> [w \in SharedWorkers |-> "unset"],
                  up |-> [w \in SharedWorkers |-> <<>>],
                  down |-> [w \in SharedWorkers |-> <<>>],
                  sets |-> 0]

\* Worker w calls ctx.setShared(key, v): its own copy is assigned and
\* SET_SHARED is sent to the primary.
SetShared(w, v) ==
    /\ cluster.mode = "shared" /\ cluster.sets < MaxSets
    /\ cluster' = [cluster EXCEPT !.shared[w] = v, !.up[w] = Append(@, v), !.sets = @ + 1]
    /\ UNCHANGED <<env, rl, listening, breq, rt, error, method, middlewares, hr, run, ctx, reqTimer,
                   abortSlot, aborts, resLog, ingest, st, pcs, en, timers, order, sf, sreq>>

\* The primary's cluster.on('message') listener takes the oldest SET_SHARED
\* of worker w: sharedState.set, then SHARED_UPDATE to every other worker.
PrimaryMessage(w) ==
    /\ cluster.mode = "shared" /\ cluster.up[w] # <<>>
    /\ LET v == Head(cluster.up[w])
       IN cluster' = [cluster EXCEPT
                         !.sharedState = v,
                         !.up[w] = Tail(@),
                         !.down = [o \in SharedWorkers |->
                                      IF o # w THEN Append(cluster.down[o], v)
                                      ELSE cluster.down[o]]]
    /\ UNCHANGED <<env, rl, listening, breq, rt, error, method, middlewares, hr, run, ctx, reqTimer,
                   abortSlot, aborts, resLog, ingest, st, pcs, en, timers, order, sf, sreq>>

\* Worker w's process.on('message') listener takes the oldest SHARED_UPDATE.
WorkerMessage(w) ==
    /\ cluster.mode = "shared" /\ cluster.down[w] # <<>>
    /\ cluster' = [cluster EXCEPT !.shared[w] = Head(cluster.down[w]), !.down[w] = Tail(@)]
    /\ UNCHANGED <<env, rl, listening, breq, rt, error, method, middlewares, hr, run, ctx, reqTimer,
                   abortSlot, aborts, resLog, ingest, st, pcs, en, timers, order, sf, sreq>>

NextShared ==
    \/ \E w \in SharedWorkers, v \in SharedValues : SetShared(w, v)
    \/ \E w \in SharedWorkers : PrimaryMessage(w)
    \/ \E w \in SharedWorkers : WorkerMessage(w)

SpecShared == InitShared /\ [][NextShared]_vars

\* ------------------------------------------------------------ rate limit
\* The client keys keyGenerator yields, and the limits an application
\* passes to createRateLimit(limit, interval).
LimitKeys == {"k1", "k2"}
Limits == 0..MaxLimit

\* Number.prototype.toString for the small integers of the headers
toString(n) ==
    CASE n = -1 -> "-1" [] n = 0 -> "0" [] n = 1 -> "1" [] n = 2 -> "2" [] n = 3 -> "3"
      [] n = 4 -> "4" [] OTHER -> "other"

\* The Context createContext gives every request.
FreshContext ==
    [aborted |-> FALSE, ended |-> FALSE, res |-> "live", req |-> "live", status |-> 200,
     headers |-> {}, body |-> "null", reqBody |-> "unset"]

\* createRateLimit(limit, interval) and rateLimit(): now = 0, the interval
\* timer runs, clients is an empty Map.  last = -1 stands for a client
\* object without the last property (undefined, never equal to now);
\* passed counts the requests of the current window handed to next().
InitLimit ==
    /\ method = "GET"
    /\ middlewares = <<"onion">>
    /\ hr = "new"
    /\ run = Idle
    /\ ctx = FreshContext
    /\ reqTimer = "none"
    /\ abortSlot = "none"
    /\ aborts = 0
    /\ resLog = <<>>
    /\ ingest = [promise |-> "none", totalSize |-> 0, nChunks |-> 0, last |-> FALSE,
                 concat |-> FALSE, late |-> FALSE]
    /\ st = [i \in 1..Len(middlewares) |-> "idle"]
    /\ pcs = [i \in 1..Len(middlewares) |-> 1]
    /\ en = [i \in 1..Len(middlewares) |-> "none"]
    /\ timers = <<>>
    /\ order = <<>>
    /\ sf = NoFile
    /\ sreq = NoStatic
    /\ error = "none"
    /\ env = "production"
    /\ rl \in [mode : {"on"}, limit : Limits, now : {0}, clients : {{}},
               last : {[k \in LimitKeys |-> -1]}, count : {[k \in LimitKeys |-> 0]},
               passed : {[k \in LimitKeys |-> 0]}, requests : {0}, outcome : {"none"}]
    /\ listening = TRUE
    /\ breq = NoBody
    /\ rt = NoRoute
    /\ cluster = NoCluster

\* setInterval(() => ++now, interval): the next window begins.
Tick ==
    /\ rl.mode = "on" /\ rl.now < MaxTicks
    /\ rl' = [rl EXCEPT !.now = @ + 1, !.passed = [k \in LimitKeys |-> 0]]
    /\ UNCHANGED <<env, listening, breq, rt, cluster, error, method, middlewares, hr, run, ctx,
                   reqTimer, abortSlot, aborts, resLog, ingest, st, pcs, en, timers, order, sf, sreq>>

\* isOverLimit(client): the first request of a window resets the count to 1
\* and is not over the limit whatever the limit is; later ones increment
\* the count and compare it with the limit.
newWindow(r, key) == r.last[key] # r.now
countAfter(r, key) == IF newWindow(r, key) THEN 1 ELSE r.count[key] + 1
isOverLimit(r, key) == IF newWindow(r, key) THEN FALSE ELSE countAfter(r, key) > r.limit

\* The rate-limit stage runs for a request whose key is key: the client
\* object is created if missing, isOverLimit is evaluated, the headers are
\* set, and either the over-limit handler or next() is called.  The default
\* handler starts with ctx.status(429); status is an accessor property, so
\* the call throws a TypeError and the stage rejects.
RateLimit(key) ==
    /\ rl.mode = "on" /\ rl.requests < MaxRequests
    /\ LET over == isOverLimit(rl, key)
           c1 == set(FreshContext, "X-RateLimit-Limit", toString(rl.limit))
           c2 == IF over
                 THEN set(set(c1, "Retry-After", "seconds"), "X-RateLimit-Remaining", "0")
                 ELSE set(c1, "X-RateLimit-Remaining", toString(rl.limit - countAfter(rl, key)))
       IN /\ rl' = [rl EXCEPT !.clients = @ \cup {key},
                              !.last[key] = rl.now,
                              !.count[key] = countAfter(rl, key),
                              !.passed[key] = IF over THEN @ ELSE @ + 1,
                              !.requests = @ + 1,
                              !.outcome = IF over THEN "handler" ELSE "next"]
          /\ ctx' = set(c2, "X-RateLimit-Reset", "seconds")
          /\ error' = IF over THEN "absent" ELSE "none"
    /\ UNCHANGED <<env, listening, breq, rt, cluster, method, middlewares, hr, run,
                   reqTimer, abortSlot, aborts, resLog, ingest, st, pcs, en, timers, order, sf, sreq>>

NextLimit ==
    \/ Tick
    \/ \E key \in LimitKeys : RateLimit(key)

SpecLimit == InitLimit /\ [][NextLimit]_vars

\* =============================================================== claims
IsPrefix(a, b) == Len(a) <= Len(b) /\ SubSeq(b, 1, Len(a)) = a
Settled == {"ok", "err", "timeout"}
Finished == {"done", "failed"}

\* C1: across abort, request timeout, stage timeout, stage errors, ctx.send,
\* ctx.sendFile and the default commit, res.end is invoked at most once per
\* Context.
C1_EndAtMostOnce == EndCount(resLog) <= 1

\* C2: once the Context's aborted flag is true, no later step invokes a
\* transport write primitive for the request.
C2_NoWriteOnceAborted == [][ctx.aborted => resLog' = resLog]_vars

\* C3: for a request the client does not abort, handleRequest finishes with
\* exactly one committed response, on every error path.
C3_ExactlyOneCommit == (hr = "done" /\ aborts = 0) => EndCount(resLog) = 1

\* C4: in the large-file path of ctx.sendFile the descriptor, once opened, is
\* closed exactly once on every exit path: never twice, and not zero times
\* once sendFile has returned.
C4_ClosedExactlyOnce ==
    /\ sf.closes <= sf.opens
    /\ sf.state = "done" => sf.closes = sf.opens

\* C5: ctx.sendFile(path) answers 403 for every path whose resolution against
\* the configured root lies outside the root, and performs no stat of it.
C5_SendFileContained ==
    (sreq.phase = "stat" /\ ~Within(sendFilePath(sreq.sendFileArg), ROOT_DIR))
        => (ctx.status = 403 /\ sreq.statPath = <<>>)

\* C6: for every GET URL under the static prefix whose resolved path lies
\* outside the static root, the serveStatic stage yields 403 and ctx.sendFile
\* is never invoked.
C6_StaticTraversalForbidden ==
    (sreq.mode = "static" /\ sreq.phase # "new"
        /\ ~Within(staticFullPath(sreq.url), staticRoot))
        => (ctx.status = 403 /\ ~sreq.called)

C8_TooLargeAnswered ==
    (ingest.totalSize > MAX_BODY_SIZE /\ hr = "done") =>
        \E n \in 1..Len(resLog) : resLog[n].op \in EndOps /\ resLog[n].status = 413

\* Markers of n onion stages: 1-pre .. n-pre, n-post .. 1-post.
OnionSeq(n) == [m \in 1..(2 * n) |-> IF m <= n THEN <<m, "pre">> ELSE <<2 * n + 1 - m, "post">>]
AllOnion == \A i \in Stages : middlewares[i] \in {"errh", "onion", "slow"}
Entered == SelectSeq(order, LAMBDA m : m[2] = "pre")

StillRunning(k) == en[k] # "none" /\ st[k] \notin Finished

\* C10 as stated: the promise of stage i's next(), that is of
\* executeNextMiddleware(i + 1), settles only after stage i + 1 and every
\* stage downstream have completed or failed, with or without stage timers.
C10_NextAfterDownstream_Original ==
    \A j \in 2..N : en[j] \in Settled => \A k \in j..N : ~StillRunning(k)

\* C10 (amended): when it settles, a started stage downstream is still
\* running only if its own stage timer, or that of a stage between it and
\* stage i, has fired.
C10_NextAfterDownstream ==
    \A j \in 2..N : en[j] \in Settled =>
        \A k \in j..N : StillRunning(k) => \E m \in j..k : en[m] = "timeout"

\* next() of the first and of the second stage settled after the suspended
\* third stage completed
C10_Witness ==
    /\ N = 3 /\ middlewares[3] = "slow"
    /\ en[2] = "ok" /\ en[3] = "ok" /\ st[3] = "done" /\ st[2] = "done"

\* The first entry of the log that ends the response (0 if there is none).
FirstEnd == IF EndCount(resLog) = 0 THEN 0
            ELSE CHOOSE n \in 1..Len(resLog) :
                    /\ resLog[n].op \in EndOps
                    /\ \A m \in 1..(n - 1) : resLog[m].op \notin EndOps
TimedOut == \E i \in Stages : en[i] = "timeout"

\* C11 as stated: when a stage invocation exceeds the per-stage budget, the
\* response committed for the request has status 503, the Context is marked
\* committed, and no 500 response is produced.
C11_StageTimeout503_Original ==
    TimedOut =>
        /\ ctx.ended
        /\ FirstEnd # 0 /\ resLog[FirstEnd].status = 503
        /\ \A n \in 1..Len(resLog) : resLog[n].status # 500

\* C11 (amended): when the timer of a stage fires while its race is open, the
\* Context is marked committed and the caller of executeNextMiddleware goes
\* on normally, with no error in flight; if the Context was neither committed
\* nor aborted, exactly one response is written then, with status 503 and a
\* JSON body, and otherwise nothing is written.
C11_StageTimeout503 ==
    [][(\E i \in Stages : en[i] # "timeout" /\ en'[i] = "timeout") =>
          /\ ctx'.ended
          /\ run'.k \in {"stage", "chained"} /\ error' = "none"
          /\ resLog' = IF ~ctx.ended /\ ~ctx.aborted
                       THEN Append(resLog, [op |-> "send", status |-> 503,
                                            headers |-> ctx.headers, body |-> "json"])
                       ELSE resLog]_vars

\* a stage timed out on a Context that was not committed: 503 is the only
\* response of the request
C11_Witness ==
    /\ TimedOut /\ hr = "done" /\ Len(resLog) = 1
    /\ resLog[1].op = "send" /\ resLog[1].status = 503 /\ resLog[1].body = "json"

\* C12: after a stage has exceeded its budget, no downstream stage that had
\* not started begins executing, even if the timed-out stage later invokes
\* next().
C12_NoStartAfterTimeout ==
    [][\A i \in Stages, j \in Stages :
          (i < j /\ en[i] = "timeout" /\ en[j] = "none") => en'[j] = "none"]_vars

Wrote408 == \E n \in 1..Len(resLog) : resLog[n].op = "timeout408"

\* C13: if the request budget elapses while the Context is neither committed
\* nor aborted, a 408 response is committed and the Context is marked
\* aborted, and every write a still-pending stage attempts afterwards is
\* suppressed; if the Context is committed or aborted when the timer fires,
\* or handleRequest has finished, the timer writes nothing.
C13_RequestTimeout ==
    [][/\ (reqTimer = "armed" /\ reqTimer' = "fired") =>
             /\ hr # "done"
             /\ IF ~ctx.ended /\ ~ctx.aborted
                THEN /\ ctx'.aborted
                     /\ Len(resLog') = Len(resLog) + 1
                     /\ resLog'[Len(resLog')].op = "timeout408"
                     /\ resLog'[Len(resLog')].status = 408
                ELSE resLog' = resLog
       /\ Wrote408 => resLog' = resLog]_vars

\* C14: when the stage chain completes with the Context neither committed
\* nor aborted, handleRequest performs exactly one default commit, which
\* carries the current draft: its status, its headers and its body (an
\* object as JSON); it does so at most once per request, and writes nothing
\* if the Context is committed or aborted.
C14_DefaultCommit ==
    [][/\ run.k = "chained" =>
             /\ hr = "chain" /\ hr' = "done"
             /\ IF ~ctx.ended /\ ~ctx.aborted
                THEN /\ ctx'.ended
                     /\ resLog' = Append(resLog,
                           [op |-> "send", status |-> ctx.status, headers |-> ctx.headers,
                            body |-> CASE ctx.body = "object" -> "json"
                                       [] ctx.body = "null" -> "none"
                                       [] OTHER -> "text"])
                ELSE resLog' = resLog
       /\ hr = "done" => run'.k # "chained"]_vars

\* stages that only assigned the draft (201, a header and an object) fell
\* through, and the default commit wrote it
C14_Witness ==
    /\ hr = "done" /\ AllOnion /\ ~TimedOut /\ \E i \in Stages : middlewares[i] = "onion"
    /\ resLog = <<[op |-> "send", status |-> 201,
                   headers |-> {<<"Content-Type", "application/json">>}, body |-> "json"]>>

\* The response ErrorHandler.handleError is to write for the error in flight.
ErrorEntry ==
    [op |-> "send", status |-> IF error = "status404" THEN 404 ELSE 500,
     headers |-> {h \in ctx.headers : h[1] # "Content-Type"}
                    \cup {<<"Content-Type", "application/json">>},
     body |-> "json"]
Throws(i) == run = [k |-> "stage", i |-> i] /\ st[i] = "run" /\ st'[i] = "failed"
Answered == resLog' = Append(resLog, ErrorEntry) /\ ctx'.ended

\* In this step an error thrown by a stage is on its way to the outermost
\* caller: it is thrown (pre holds of the Context then), passed upward,
\* or answered by the error handler; it is never dropped, and handleRequest
\* does not reject.
ErrorSurfaces(pre) ==
    /\ \A i \in Stages : (Throws(i) /\ pre) => (run'.k = "rejected" /\ error' \in ErrStatuses)
    /\ (run.k = "rejected" /\ pre) => (run'.k \in {"rejected", "caught"} \/ Answered)
    /\ (run.k = "caught" /\ pre) => Answered
    /\ hr' # "rejected"

\* C15 as stated: an error thrown by any stage and not caught upstream
\* results in a committed JSON error response whose status is the error's
\* status if present and 500 otherwise; handleRequest never rejects.
C15_ErrorResponse_Original == [][ErrorSurfaces(TRUE)]_vars

\* C15 (amended): the same for an error thrown while the Context is neither
\* committed nor aborted; otherwise nothing is written for the error.
C15_ErrorResponse ==
    [][/\ ErrorSurfaces(~ctx.ended /\ ~ctx.aborted)
       /\ (run.k \in {"rejected", "caught"} /\ (ctx.ended \/ ctx.aborted)) =>
             resLog' = resLog]_vars

\* ctx.throw(404, ...) in a stage below another one was answered with 404
C15_Witness ==
    /\ hr = "done" /\ N >= 2 /\ st[N] = "failed" /\ Len(resLog) = 1
    /\ resLog[1].op = "send" /\ resLog[1].status = 404 /\ resLog[1].body = "json"

\* C16: for a body-bearing request the promise of parseBody always settles:
\* once a last chunk, a client abort or a size breach has been delivered it
\* is not pending, and handleRequest has gone on; an abort that settles it
\* leaves an empty body and aborted = true.
C16_IngestSettles ==
    /\ (ingest.last \/ aborts > 0 \/ ingest.totalSize > MAX_BODY_SIZE) =>
          /\ ingest.promise # "pending"
          /\ hr = "parse" => run.k = "parsed"
    /\ (ingest.promise = "resolved" /\ ~ingest.last) =>
          /\ aborts > 0 /\ ctx.aborted
          /\ ctx.reqBody \in {"empty", "null"}
    /\ (ingest.promise = "resolved" /\ ingest.last) => ingest.totalSize <= MAX_BODY_SIZE
    /\ ingest.promise = "rejected" => ingest.totalSize > MAX_BODY_SIZE

\* the client aborted after one chunk of a body: parseBody resolved and
\* handleRequest finished
C16_Witness ==
    /\ aborts = 1 /\ ingest.nChunks = 1 /\ ~ingest.last /\ ingest.promise = "resolved"
    /\ hr = "done"

C18_ArmedInSameTurn ==
    /\ hr # "new" => abortSlot # "none"
    /\ (hr # "new" /\ method \notin {"GET", "HEAD"}) =>
          (ingest.promise # "none" /\ abortSlot \in {"parseBody", "sendFile"})
    /\ aborts > 0 => ctx.aborted

\* the client aborted a POST before any chunk arrived, and no stage ran
C18_Witness ==
    /\ method = "POST" /\ aborts = 1 /\ ingest.nChunks = 0 /\ ctx.aborted
    /\ hr = "done" /\ \A i \in Stages : en[i] = "none"

C20_NoStageOnceAborted ==
    [][ctx.aborted => \A j \in Stages : en[j] = "none" => en'[j] = "none"]_vars

\* C21: once listen() has been called, no call adds, removes or reorders
\* stages: the stage list stays as it is.
C21_StagesFixedAfterListen == [][listening => middlewares' = middlewares]_vars

\* C22: on every path by which handleRequest finishes, the request timer is
\* no longer pending and the Context's links to the transport objects
\* (ctx.req, ctx.res) are severed.
C22_CleanupOnEveryPath ==
    hr \in {"done", "rejected"} =>
        /\ reqTimer \in {"cleared", "fired"}
        /\ ctx.req = "null" /\ ctx.res = "null"

\* handleRequest finished after a client abort during a stage's I/O, with a
\* stage still pending
C22_Witness ==
    /\ hr = "done" /\ aborts = 1 /\ reqTimer = "cleared" /\ ctx.res = "null"
    /\ \E i \in Stages : st[i] = "io"

\* C23: ctx.sendFile called on a Context that is already committed or
\* aborted returns false and does nothing else: no filesystem access, no
\* descriptor, no write to the transport, draft and flags unchanged; this
\* holds for every such call.
C23_SendFileNoOp ==
    [][\A i \in Stages :
          (Running(i) /\ Op(i) = "sendFile" /\ (ctx.ended \/ ctx.aborted)) =>
              /\ sf'.ret = "false"
              /\ sf'.state = sf.state /\ sf'.fd = sf.fd
              /\ sf'.opens = sf.opens /\ sf'.closes = sf.closes
              /\ resLog' = resLog /\ abortSlot' = abortSlot
              /\ ctx' = ctx]_vars

\* the second of two calls has returned on a Context that the client
\* aborted before the first one, which never reached the filesystem
C23_Witness ==
    /\ ctx.aborted /\ ~ctx.ended /\ sf.ret = "false" /\ sf.state = "none"
    /\ \E i \in Stages : middlewares[i] = "file" /\ pcs[i] = 3

\* C24: once sendFile has returned for a regular file of size S that the
\* filesystem let it stat, open and read: if S is at most 1 MiB, one response was committed, with Content-Length and body
\* length both S; if S is larger, the streamed chunk lengths sum to S unless
\* the transfer was aborted.
C24_ByteExact ==
    (sf.state = "done" /\ sf.size > 0 /\ sf.err \notin {"EIO", "ENOENT"}) =>
        IF sf.size <= MAX_SMALL_FILE_SIZE
        THEN /\ EndCount(resLog) = 1
             /\ \E k \in DOMAIN resLog : resLog[k].op = "fileSmall"
             /\ sf.contentLength = sf.size /\ sf.sent = sf.size
        ELSE ctx.aborted \/ sf.sent = sf.size

\* C25: when ctx.sendFile fails on a Context that nothing else committed or
\* aborted (no abort, no timer fired), it has returned false to its stage
\* and the one response on the transport carries, from its status line on,
\* 404 for a target that is not a regular file or is missing and 500 for
\* any other failure of stat, open or read.
C25_FileErrorMapping ==
    ( /\ sf.state = "done" /\ sf.err \in {"notfile", "ENOENT", "EIO"}
      /\ run = [k |-> "stage", i |-> sf.owner]
      /\ aborts = 0 /\ reqTimer = "armed" /\ ~TimedOut ) =>
        /\ sf.ret = "false"
        /\ EndCount(resLog) = 1
        /\ resLog[1].status = IF sf.err = "EIO" THEN 500 ELSE 404

\* JSON values and the texts JSON.stringify writes for them, up to the
\* length of a body
RECURSIVE JsonValues(_)
JsonValues(depth) ==
    LET nums == {Num(numVal(k)) : k \in 1..MaxJsonLen}
    IN IF depth = 0 THEN nums
       ELSE nums \cup {Arr(a) : a \in SeqsUpTo(JsonValues(depth - 1), (MaxJsonLen - 1) \div 2)}
RECURSIVE Digits(_)
Digits(n) == IF n = 0 THEN <<>> ELSE Append(Digits(n \div 10), "1")
RECURSIVE Stringify(_)
Stringify(v) ==
    IF v.t = "num" THEN Digits(v.n)
    ELSE LET RECURSIVE Elems(_)
             Elems(a) == IF a = <<>> THEN <<>>
                         ELSE IF Len(a) = 1 THEN Stringify(a[1])
                              ELSE Stringify(a[1]) \o <<",">> \o Elems(Tail(a))
         IN <<"[">> \o Elems(v.a) \o <<"]">>
ValidJson ==
    {p \in {<<Stringify(v), v>> : v \in JsonValues(MaxJsonLen \div 2)} : Len(p[1]) <= MaxJsonLen}
IsJsonType(contentType) == contentType # <<>> /\ contentType[1] = "application/json"
JsonDecoded ==
    IF \E p \in ValidJson : p[1] = breq.text
    THEN \E p \in ValidJson : p[1] = breq.text /\ breq.decoded = p[2]
    ELSE breq.decoded = Str(breq.text)
ChainRan == st[1] # "idle"

\* C26 as stated: with a JSON content type, once the body has been decoded
\* it is the parsed value if the text is valid JSON and the raw text
\* otherwise, and by the time handleRequest finishes the stage chain has run.
C26_JsonBody_Original ==
    (IsJsonType(breq.contentType) /\ breq.decoded # Unset) =>
        /\ JsonDecoded
        /\ hr \in {"done", "rejected"} => ChainRan

\* C26: the same, the chain running provided the request timer had not
\* fired when the last chunk arrived; handleRequest never rejects.
C26_JsonBody ==
    (IsJsonType(breq.contentType) /\ breq.decoded # Unset) =>
        /\ JsonDecoded
        /\ hr # "rejected"
        /\ (hr = "done" /\ ~ingest.late) => ChainRan
        /\ (hr = "done" /\ ingest.late) => ~ChainRan

\* a malformed JSON body was decoded to its text and the stage ran
C26_Witness ==
    /\ IsJsonType(breq.contentType) /\ breq.text = <<"[", "1", ",", "]">>
    /\ breq.decoded = Str(breq.text) /\ hr = "done" /\ st[1] = "done"
    /\ Len(resLog) = 1 /\ resLog[1].status = 201

\* The pairs of a form body are its pieces between '&'; the key of a pair
\* is what precedes its first '=', the value what follows it.
IsFormType(contentType) ==
    contentType # <<>> /\ contentType[1] = "application/x-www-form-urlencoded"
FormPairs == split(breq.text, "&")
EqAt(pair) ==
    IF \E k \in DOMAIN pair : pair[k] = "="
    THEN CHOOSE k \in DOMAIN pair : pair[k] = "=" /\ \A j \in 1..(k - 1) : pair[j] # "="
    ELSE Len(pair) + 1
PairKey(pair) == decodeURIComponent(SubSeq(pair, 1, EqAt(pair) - 1)).out
PairVal(pair) == decodeURIComponent(SubSeq(pair, EqAt(pair) + 1, Len(pair))).out

\* C27: with a form-encoded content type and a body whose percent escapes
\* are all well formed, the decoded body is a flat map that holds, for
\* every pair with a key (the last one, where a key is repeated), the
\* percent-decoded key mapped to the percent-decoded value.
C27_FormBody ==
    ( /\ IsFormType(breq.contentType) /\ breq.decoded # Unset
      /\ decodeURIComponent(breq.text).ok ) =>
        /\ breq.decoded.t = "obj"
        /\ \A j \in DOMAIN FormPairs :
              ( /\ PairKey(FormPairs[j]) # <<>>
                /\ \A l \in (j + 1)..Len(FormPairs) :
                      PairKey(FormPairs[l]) # PairKey(FormPairs[j]) ) =>
                  <<PairKey(FormPairs[j]), PairVal(FormPairs[j])>> \in breq.decoded.m

\* C28: for every URL and pattern the matcher accepts, before a handler
\* runs each ':name' segment of the pattern is bound in params to the URL
\* segment at the same position among the segments that were compared.
C28_ParamsBound ==
    (rt.mode = "on" /\ rt.matched /\ ~endsWithWildcard(rt.pattern)) =>
        \A j \in DOMAIN Split(rt.pattern) :
            Head(Split(rt.pattern)[j]) = ":" =>
                <<Tail(Split(rt.pattern)[j]), Split(rt.url)[j]>> \in rt.params

LiveTarget == numCPUs(cluster.workers) - cluster.deliberate

\* C30: the primary forks exactly workerCount children, and after any
\* sequence of worker crashes the number of live workers eventually returns
\* to workerCount (less the workers that ended with a deliberate status).
C30_Respawn ==
    /\ []((cluster.phase = "primary" /\ cluster.events = <<>>) => cluster.live = LiveTarget)
    /\ (cluster.phase = "primary") ~> (cluster.events = <<>> /\ cluster.live = LiveTarget)

\* every worker crashed or was killed, and each was replaced
C30_Witness ==
    /\ cluster.phase = "primary" /\ cluster.exits = MaxExits /\ cluster.deliberate = 0
    /\ cluster.events = <<>> /\ cluster.live = numCPUs(cluster.workers)
    /\ cluster.forks = numCPUs(cluster.workers) + MaxExits

\* C31: in multi-thread mode, once the main thread has spawned its workers,
\* eventually the descriptor of every one of the workerCount workers is
\* attached to the acceptor (or a worker has crashed).
C31_AllAttached ==
    (cluster.mode = "threads" /\ cluster.phase = "main")
        ~> (cluster.attached = 1..numCPUs(cluster.workers) \/ cluster.exits > 0)

\* C32: in multi-thread mode the primary never puts a new worker in the
\* place of one that exited abnormally.
C32_NoThreadRestart ==
    cluster.mode = "threads" => \A i \in DOMAIN cluster.slots : cluster.slots[i].gen = 0

\* the responses ErrorHandler.handleError wrote: the status is err.status || 500
ErrorResponses == {k \in DOMAIN resLog : resLog[k].op = "send" /\ resLog[k].status \in {404, 500}}

\* C33: under NODE_ENV = 'production' no error response of the default error
\* handler carries the error's stack, whichever stage threw; under any other
\* value every error response carries it.
C33_StackOnlyOutsideProduction ==
    \A k \in ErrorResponses :
        /\ resLog[k].headers = {<<"Content-Type", "application/json">>}
        /\ (resLog[k].body = "jsonStack") <=> (env # "production")
        /\ resLog[k].body \in {"json", "jsonStack"}

C33_Witness ==
    /\ env = "production"
    /\ ErrorResponses # {}
    /\ \E i \in Stages : middlewares[i] = "throw" /\ st[i] = "failed"

\* a stage has called ctx.redirect
Redirected == \E i \in Stages : middlewares[i] = "redirect" /\ st[i] # "idle"

\* C34: once the request of a stage that called ctx.redirect(url) has been
\* handled without an abort or a timeout, the transport holds a committed
\* response of status 302 with a Location header equal to url.
C34_Redirect302 ==
    (Redirected /\ hr = "done" /\ aborts = 0 /\ ~TimedOut /\ ~Wrote408 /\ reqTimer # "fired")
        => \E k \in DOMAIN resLog :
              /\ resLog[k].op \in EndOps
              /\ resLog[k].status = 302
              /\ \E url \in RedirectUrls : <<"Location", url>> \in resLog[k].headers

\* how many times stage i was invoked: every invocation records a marker
Invocations(i) == Len(SelectSeq(order, LAMBDA m : m = <<i, "pre">>))

\* C35: within one request every stage function is invoked at most once,
\* also below a stage that calls next() twice in a row or twice at once.
C35_InvokedOnce == \A i \in Stages : Invocations(i) <= 1

\* a stage has made its second next() call and its downstream stage has run
C35_Witness ==
    \E i \in Stages :
        /\ i < N /\ Invocations(i + 1) = 1
        /\ \/ middlewares[i] = "twice" /\ pcs[i] > 2
           \/ middlewares[i] = "both" /\ st[i] = "done"

\* parseBody has settled: at once for a request without a body, else when
\* its promise is resolved or rejected
Ingested == hr # "new" /\ ingest.promise # "pending"

\* C36: once body ingestion has settled, handleRequest eventually finishes
\* and the Context is cleaned up, also when a stage never returns or never
\* calls next().
C36_Finishes == Ingested ~> (hr \in {"done", "rejected"} /\ ctx.res = "null")

\* handleRequest has finished behind a stage whose I/O never completed
C36_Witness ==
    /\ hr = "done" /\ ctx.res = "null"
    /\ \E i \in Stages : st[i] = "io" /\ en[i] = "timeout"

\* C37: once the transport has delivered an abort signal (it does so only
\* between the arrival of the request and the end of the response) the
\* Context is marked aborted, whichever of handleRequest, parseBody and
\* sendFile registered the callback the transport holds.
C37_AbortMarks == aborts >= 1 => ctx.aborted

\* the abort was delivered to sendFile's callback, before any timeout
C37_Witness ==
    /\ aborts = 1 /\ abortSlot = "sendFile" /\ ctx.aborted
    /\ reqTimer # "fired" /\ EndCount(resLog) = 0

\* C38: for a GET under the static prefix whose resolved path lies inside
\* the static root, the path ctx.sendFile stats is that resolved path:
\* application root + static directory + the URL's path below the prefix.
C38_StaticStatsResolved ==
    (/\ sreq.mode = "static" /\ sreq.phase = "stat"
     /\ Within(staticFullPath(sreq.url), staticRoot))
        => sreq.statPath = staticFullPath(sreq.url)

\* every message between the workers and the primary has been delivered
SharedQuiet ==
    /\ cluster.mode = "shared" /\ cluster.sets > 0
    /\ \A w \in SharedWorkers : cluster.up[w] = <<>> /\ cluster.down[w] = <<>>

\* C39: once workers have called setShared and every message has been
\* delivered, every worker and the primary hold the same value for the key.
C39_SharedConverges ==
    SharedQuiet => \A w \in SharedWorkers : cluster.shared[w] = cluster.sharedState

\* C40: within one window at most limit requests with the same client key
\* are handed to next().
C40_AtMostLimit ==
    rl.mode = "on" => \A k \in LimitKeys : rl.passed[k] <= rl.limit

====
